---------------------------- MODULE Spec2Model ----------------------------
(***************************************************************************)
(* Verification model of the framesss frame-analysis core: the member      *)
(* discretizer (pre/member_1d.py), the model / DOF assembler               *)
(* (fea/models/model.py, fea/node.py), the beam element (fea/element_1d.py)*)
(* and the linear static solver (solvers/linear_static.py).                *)
(*                                                                         *)
(* Positions along a member are floating-point numbers compared with exact *)
(* equality in the code; they are modelled as integers on a grid, so that  *)
(* two positions are equal in the model exactly when the two floats are.   *)
(* Python lists are sequences (index i of the code is index i+1 here),     *)
(* Python objects (Node, Element1D) are entries of the tables nodes and    *)
(* elements, identified by their index.                                    *)
(***************************************************************************)
EXTENDS Integers, Sequences, FiniteSets, TLC

VARIABLES
    members,      \* Member1D objects: label -> record of the member's fields
    nodes,        \* every Node object created so far: sequence of records
    elements,     \* every Element1D object created so far: sequence of records
    load_cases,   \* LoadCase objects: label -> record
    model,        \* the Model object
    solver,       \* position of LinearStaticSolver.solve() within its body
    raised,       \* the exception raised by the last call, None when it returned
    calls         \* history of the API calls made so far (bounds the exploration)

vars == <<members, nodes, elements, load_cases, model, solver, raised, calls>>

(***************************************************************************)
(* Bounds of the exploration.                                              *)
(***************************************************************************)
MemberLength == 3      \* length of the member of SpecMember, in grid units
MaxAdds == 2           \* add_node / add_*_load calls explored per member
MaxDiscretize == 2     \* discretize calls explored per member
MaxDofNodes == 3       \* nodes of the model of SpecDof
MaxAssemble == 2       \* assemble_dof_indices runs explored in SpecDof
MaxSolves == 2         \* solve() calls explored in SpecSolve

(***************************************************************************)
(* Enumerations (framesss.enums, used by the sources under their names).   *)
(***************************************************************************)
FREE_DOF == "free"
FIXED_DOF == "fixed"
SPRING_DOF == "spring"
FICTFIXED_DOF == "fictfixed"
SupportFixity == {FREE_DOF, FIXED_DOF, SPRING_DOF, FICTFIXED_DOF}

CONTINUOUS_END == "fixed"
HINGED_END == "hinged"
BeamConnection == {CONTINUOUS_END, HINGED_END}

AllFree == <<FREE_DOF, FREE_DOF, FREE_DOF, FREE_DOF, FREE_DOF, FREE_DOF>>

None == "None"

(***************************************************************************)
(* Helpers for Python / numpy list operations.                             *)
(***************************************************************************)
Range(s) == {s[i] : i \in DOMAIN s}

\* np.where(v == arr)[0][0], as a 1-based index; 0 when v is not in arr
\* (the code then raises IndexError).
FirstIndex(arr, v) ==
    IF \E i \in DOMAIN arr : arr[i] = v
    THEN CHOOSE i \in DOMAIN arr : arr[i] = v /\ \A j \in 1..(i - 1) : arr[j] # v
    ELSE 0

\* list.insert(idx, e) with the 0-based idx of the code given 1-based.
ListInsert(lst, i, e) ==
    IF i > Len(lst) THEN Append(lst, e)
    ELSE SubSeq(lst, 1, i - 1) \o <<e>> \o SubSeq(lst, i, Len(lst))

Min(S) == CHOOSE x \in S : \A y \in S : x <= y

RECURSIVE SortedSeq(_)
SortedSeq(S) == IF S = {} THEN <<>> ELSE <<Min(S)>> \o SortedSeq(S \ {Min(S)})

\* The values of arr in increasing order, duplicates kept (np.sort).
RECURSIVE NpSort(_)
NpSort(arr) ==
    IF arr = <<>> THEN <<>>
    ELSE LET i == FirstIndex(arr, Min(Range(arr)))
         IN  <<arr[i]>> \o NpSort(SubSeq(arr, 1, i - 1) \o SubSeq(arr, i + 1, Len(arr)))

\* np.unique(arr): the sorted distinct values.
NpUnique(arr) == SortedSeq(Range(arr))


\* dict[key] += v on a dict that gets a zero entry first when key is missing
\* (the `if not d.get(key): d[key] = New()` idiom of the sources).
DictAdd(d, key, v) ==
    IF key \in DOMAIN d THEN [d EXCEPT ![key] = @ + v] ELSE d @@ (key :> v)

(***************************************************************************)
(* Objects.                                                                *)
(***************************************************************************)
\* Node.__init__: X is the node's coordinate along the global X axis (the
\* members of the model are collinear), id is None until discretize_members,
\* results is the set of load cases that self.results holds values for.
NewNode(X, fixity, spring_stiffness) ==
    [X |-> X, fixity |-> fixity, spring_stiffness |-> spring_stiffness, id |-> None,
     results |-> {}]

NoSprings == <<0, 0, 0, 0, 0, 0>>

\* Element1D.__init__: internal_forces is the set of load cases that the
\* element's internal-force dictionaries hold arrays for.
NewElement(member, n1, n2, x_1, x_2, hng) ==
    [member |-> member, nodes |-> <<n1, n2>>, x_start |-> x_1, x_end |-> x_2,
     length |-> x_2 - x_1, hinge_start |-> hng[1], hinge_end |-> hng[2],
     id |-> None, global_dofs |-> <<>>, internal_forces |-> {}]

\* Member1D.__init__: n1, n2 index the end nodes in the node table.
NewMember(n1, n2, length, hinges) ==
    [nodes |-> <<n1, n2>>, length |-> length,
     hinge_start |-> hinges[1], hinge_end |-> hinges[2],
     distributed_loads |-> <<>>, thermal_loads |-> <<>>, point_loads |-> <<>>,
     generated_nodes |-> <<>>, generated_elements |-> <<>>, results |-> {},
     x_user_defined_nodes |-> <<0, length>>,
     x_discontinuities |-> <<0, length>>]

\* A global vector (u_global, f_global of a load case) is kept in symbolic
\* form: kind tells what the vector holds, the other fields what it was
\* computed from.  NoVector is Python's None.
NoVector == [kind |-> "None"]

\* LoadCase.__init__
NewLoadCase ==
    [nodal_loads |-> <<>>, prescribed_displacements |-> <<>>,
     element_distributed_loads |-> <<>>, element_thermal_loads |-> <<>>,
     u_global |-> NoVector, f_global |-> NoVector, is_solved |-> FALSE]

\* Model.__init__
NewModel ==
    [nodes |-> {}, elements |-> {}, load_combinations |-> {},
     neq_free |-> 0, neq_fixed |-> 0, neq_spring |-> 0,
     k_global |-> <<>>, spring_stiffness_global |-> <<>>,
     dof_connectivity_matrix |-> <<>>]

(***************************************************************************)
(* Member loads (pre/member_load.py).  The constructors convert the given  *)
(* position to absolute length units and store it on the load; a position  *)
(* that floating-point error has left off the member end is stored as the  *)
(* member end (tests/test_member.py, test_floating_point_precision).       *)
(***************************************************************************)
MemberLoadPosition(length, x) ==
    IF x < 0 THEN 0 ELSE IF x > length THEN length ELSE x

PointLoadOnMember(mem, x, load_case, value) ==
    [x |-> MemberLoadPosition(mem.length, x), load_case |-> load_case, value |-> value]

SpanLoadOnMember(mem, x_start, x_end, load_case, value) ==
    [x_start |-> MemberLoadPosition(mem.length, x_start),
     x_end |-> MemberLoadPosition(mem.length, x_end),
     load_case |-> load_case, value |-> value]

(***************************************************************************)
(* Member1D: the add_* calls.                                              *)
(***************************************************************************)
\* Member1D.add_node.  np.sort(self.x_user_defined_nodes) returns a sorted
\* copy that the code discards, so the array keeps its insertion order.
\* Returns the member and the node table after the call.
AddNode(mem, ntab, x, fixity, spring_stiffness) ==
    LET xu == Append(mem.x_user_defined_nodes, x)
        new_node == NewNode(ntab[mem.nodes[1]].X + x, fixity, spring_stiffness)
        idx == FirstIndex(xu, x)
    IN  [member |-> [mem EXCEPT !.x_discontinuities = Append(@, x),
                                !.x_user_defined_nodes = xu,
                                !.nodes = ListInsert(@, idx, Len(ntab) + 1)],
         nodes |-> Append(ntab, new_node)]

\* Member1D.add_point_load
AddPointLoad(mem, x, load_case, value) ==
    LET new_load == PointLoadOnMember(mem, x, load_case, value)
    IN  [mem EXCEPT !.x_discontinuities = Append(@, new_load.x),
                    !.point_loads = Append(@, new_load)]

\* Member1D.add_distributed_load
AddDistributedLoad(mem, x_start, x_end, load_case, value) ==
    LET new_udl == SpanLoadOnMember(mem, x_start, x_end, load_case, value)
    IN  [mem EXCEPT !.x_discontinuities = Append(Append(@, new_udl.x_start), new_udl.x_end),
                    !.distributed_loads = Append(@, new_udl)]

\* Member1D.add_thermal_load
AddThermalLoad(mem, x_start, x_end, load_case, value) ==
    LET new_thermal_load == SpanLoadOnMember(mem, x_start, x_end, load_case, value)
    IN  [mem EXCEPT !.x_discontinuities =
                        Append(Append(@, new_thermal_load.x_start), new_thermal_load.x_end),
                    !.thermal_loads = Append(@, new_thermal_load)]

(***************************************************************************)
(* Member1D.discretize and its steps.  Each step returns the fields it     *)
(* changes; error is None or the exception that the step raises.           *)
(***************************************************************************)
\* Member1D.generate_nodes: the loop over self.x_discontinuities from its
\* k-th entry on; gen is self.generated_nodes, ntab the node table.
RECURSIVE GenerateNodesFrom(_, _, _, _)
GenerateNodesFrom(mem, k, gen, ntab) ==
    IF k > Len(mem.x_discontinuities)
    THEN [generated_nodes |-> gen, nodes |-> ntab]
    ELSE LET x == mem.x_discontinuities[k]
         IN  IF x \in Range(mem.x_user_defined_nodes)
             THEN LET idx == FirstIndex(mem.x_user_defined_nodes, x)
                  IN  GenerateNodesFrom(mem, k + 1, Append(gen, mem.nodes[idx]), ntab)
             ELSE LET node == NewNode(ntab[mem.nodes[1]].X + x, AllFree, NoSprings)
                  IN  GenerateNodesFrom(mem, k + 1, Append(gen, Len(ntab) + 1),
                                        Append(ntab, node))

GenerateNodes(mem, ntab) == GenerateNodesFrom(mem, 1, mem.generated_nodes, ntab)

\* Member1D.generate_elements: zip() stops at the shortest of its arguments;
\* i is the 0-based loop index of the code.
NumZipped(mem) ==
    LET a == Len(mem.generated_nodes) - 1
        b == Len(mem.x_discontinuities) - 1
    IN  IF a < b THEN a ELSE b

\* A variant that gives every element the connectivities of the member.
ElementHinges_MemberEnds(mem, i) == <<mem.hinge_start, mem.hinge_end>>

ElementHinges(mem, i) ==
    <<IF i = 0 THEN mem.hinge_start ELSE CONTINUOUS_END,
      IF i = Len(mem.x_discontinuities) - 2 THEN mem.hinge_end ELSE CONTINUOUS_END>>

RECURSIVE GenerateElementsFrom(_, _, _, _, _)
GenerateElementsFrom(m, mem, i, gen, etab) ==
    IF i >= NumZipped(mem)
    THEN [generated_elements |-> gen, elements |-> etab]
    ELSE LET new_element == NewElement(m, mem.generated_nodes[i + 1],
                                       mem.generated_nodes[i + 2],
                                       mem.x_discontinuities[i + 1],
                                       mem.x_discontinuities[i + 2],
                                       ElementHinges(mem, i))
         IN  GenerateElementsFrom(m, mem, i + 1, Append(gen, Len(etab) + 1),
                                  Append(etab, new_element))

GenerateElements(m, mem, etab) ==
    GenerateElementsFrom(m, mem, 0, mem.generated_elements, etab)

\* Member1D.assign_point_loads: the loop from the k-th point load on.
RECURSIVE AssignPointLoadsFrom(_, _, _)
AssignPointLoadsFrom(mem, k, lcs) ==
    IF k > Len(mem.point_loads)
    THEN [load_cases |-> lcs, error |-> None]
    ELSE LET point_load == mem.point_loads[k]
             idx == FirstIndex(mem.x_discontinuities, point_load.x)
         IN  IF idx = 0
             THEN [load_cases |-> lcs, error |-> "IndexError"]
             ELSE LET node == mem.generated_nodes[idx]
                  IN  AssignPointLoadsFrom(mem, k + 1,
                          [lcs EXCEPT ![point_load.load_case].nodal_loads =
                                          DictAdd(@, node, point_load.value)])

AssignPointLoads(mem, lcs) == AssignPointLoadsFrom(mem, 1, lcs)

\* The mask of assign_distributed_loads / assign_thermal_loads: the 1-based
\* indices k with load.x_start <= x_disc[k] and x_disc[k+1] <= load.x_end.
\* A variant of the mask that tests the start of the interval only.
LoadMask_StartOnly(mem, load) ==
    {k \in 1..(Len(mem.x_discontinuities) - 1) : load.x_start <= mem.x_discontinuities[k]}

LoadMask(mem, load) ==
    {k \in 1..(Len(mem.x_discontinuities) - 1) :
        /\ load.x_start <= mem.x_discontinuities[k]
        /\ mem.x_discontinuities[k + 1] <= load.x_end}

\* np.array(self.generated_elements)[mask] raises IndexError when the mask
\* and the list differ in length.
MaskFits(mem) == Len(mem.generated_elements) = Len(mem.x_discontinuities) - 1

\* dict[element] += value for every masked element, in list order.
RECURSIVE AddToElements(_, _, _, _, _)
AddToElements(mem, mask, k, d, value) ==
    IF k > Len(mem.generated_elements) THEN d
    ELSE AddToElements(mem, mask, k + 1,
                       IF k \in mask THEN DictAdd(d, mem.generated_elements[k], value) ELSE d,
                       value)

\* Member1D.assign_distributed_loads: the loop from the k-th load on.  The
\* loads of the model are uniform, so the value at the element start and at
\* the element end is the load's value.
RECURSIVE AssignDistributedLoadsFrom(_, _, _)
AssignDistributedLoadsFrom(mem, k, lcs) ==
    IF k > Len(mem.distributed_loads)
    THEN [load_cases |-> lcs, error |-> None]
    ELSE LET load == mem.distributed_loads[k]
         IN  IF ~MaskFits(mem)
             THEN [load_cases |-> lcs, error |-> "IndexError"]
             ELSE AssignDistributedLoadsFrom(mem, k + 1,
                      [lcs EXCEPT ![load.load_case].element_distributed_loads =
                          AddToElements(mem, LoadMask(mem, load), 1, @, load.value)])

AssignDistributedLoads(mem, lcs) == AssignDistributedLoadsFrom(mem, 1, lcs)

\* Member1D.assign_thermal_loads: the loop from the k-th load on.
RECURSIVE AssignThermalLoadsFrom(_, _, _)
AssignThermalLoadsFrom(mem, k, lcs) ==
    IF k > Len(mem.thermal_loads)
    THEN [load_cases |-> lcs, error |-> None]
    ELSE LET load == mem.thermal_loads[k]
         IN  IF ~MaskFits(mem)
             THEN [load_cases |-> lcs, error |-> "IndexError"]
             ELSE AssignThermalLoadsFrom(mem, k + 1,
                      [lcs EXCEPT ![load.load_case].element_thermal_loads =
                          AddToElements(mem, LoadMask(mem, load), 1, @, load.value)])

AssignThermalLoads(mem, lcs) == AssignThermalLoadsFrom(mem, 1, lcs)

\* Member1D.discretize(model) of member m.  An exception raised by a step
\* leaves what the earlier steps have written and skips the rest.
Discretize(m, mem0, ntab, etab, lcs, mdl) ==
    LET mem1 == [mem0 EXCEPT !.x_discontinuities = NpUnique(@)]
        gn   == GenerateNodes(mem1, ntab)
        mem2 == [mem1 EXCEPT !.generated_nodes = gn.generated_nodes]
        ge   == GenerateElements(m, mem2, etab)
        mem3 == [mem2 EXCEPT !.generated_elements = ge.generated_elements]
        pl   == AssignPointLoads(mem3, lcs)
        dl   == IF pl.error = None THEN AssignDistributedLoads(mem3, pl.load_cases) ELSE pl
        tl   == IF dl.error = None THEN AssignThermalLoads(mem3, dl.load_cases) ELSE dl
    IN  [member |-> mem3, nodes |-> gn.nodes, elements |-> ge.elements,
         load_cases |-> tl.load_cases, error |-> tl.error,
         model |-> IF tl.error = None
                   THEN [mdl EXCEPT !.nodes = @ \cup Range(mem3.generated_nodes),
                                    !.elements = @ \cup Range(mem3.generated_elements)]
                   ELSE mdl]

(***************************************************************************)
(* SpecMember: one member "M1" between two nodes; the caller adds nodes    *)
(* and loads in any order and then discretizes the member, once or again.  *)
(***************************************************************************)
MemberCases == {"LC1"}

\* Positions a caller passes for a load: the grid positions of the member and
\* one position off each end (a value shifted by floating-point error).
RawPositions == (0 - 1)..(MemberLength + 1)

OffMember(x) == x < 0 \/ x > MemberLength

NoSolver == [pc |-> "idle"]

InitMember ==
    /\ \E hs \in BeamConnection, he \in BeamConnection :
          members = [m \in {"M1"} |-> NewMember(1, 2, MemberLength, <<hs, he>>)]
    /\ nodes = <<NewNode(0, AllFree, NoSprings), NewNode(MemberLength, AllFree, NoSprings)>>
    /\ elements = <<>>
    /\ load_cases = [lc \in MemberCases |-> NewLoadCase]
    /\ model = NewModel
    /\ solver = NoSolver
    /\ raised = None
    /\ calls = [adds |-> 0, discretize |-> 0, shifted |-> FALSE, added_nodes |-> 0]

MemberAddNode ==
    \E x \in 0..MemberLength :
        LET r == AddNode(members["M1"], nodes, x, AllFree, NoSprings)
        IN  /\ calls.adds < MaxAdds /\ calls.discretize = 0
            /\ members' = [members EXCEPT !["M1"] = r.member]
            /\ nodes' = r.nodes
            /\ raised' = None
            /\ calls' = [calls EXCEPT !.adds = @ + 1, !.added_nodes = @ + 1]
            /\ UNCHANGED <<elements, load_cases, model, solver>>

MemberAddPointLoad ==
    \E x \in RawPositions, lc \in MemberCases :
        /\ calls.adds < MaxAdds /\ calls.discretize = 0
        /\ members' = [members EXCEPT !["M1"] = AddPointLoad(@, x, lc, 1)]
        /\ raised' = None
        /\ calls' = [calls EXCEPT !.adds = @ + 1, !.shifted = @ \/ OffMember(x)]
        /\ UNCHANGED <<nodes, elements, load_cases, model, solver>>

MemberAddDistributedLoad ==
    \E x_start \in RawPositions, x_end \in RawPositions, lc \in MemberCases :
        /\ x_start < x_end
        /\ calls.adds < MaxAdds /\ calls.discretize = 0
        /\ members' = [members EXCEPT !["M1"] = AddDistributedLoad(@, x_start, x_end, lc, 1)]
        /\ raised' = None
        /\ calls' = [calls EXCEPT !.adds = @ + 1,
                                  !.shifted = @ \/ OffMember(x_start) \/ OffMember(x_end)]
        /\ UNCHANGED <<nodes, elements, load_cases, model, solver>>

MemberAddThermalLoad ==
    \E x_start \in RawPositions, x_end \in RawPositions, lc \in MemberCases :
        /\ x_start < x_end
        /\ calls.adds < MaxAdds /\ calls.discretize = 0
        /\ members' = [members EXCEPT !["M1"] = AddThermalLoad(@, x_start, x_end, lc, 1)]
        /\ raised' = None
        /\ calls' = [calls EXCEPT !.adds = @ + 1,
                                  !.shifted = @ \/ OffMember(x_start) \/ OffMember(x_end)]
        /\ UNCHANGED <<nodes, elements, load_cases, model, solver>>

MemberDiscretize ==
    LET r == Discretize("M1", members["M1"], nodes, elements, load_cases, model)
    IN  /\ calls.discretize < MaxDiscretize
        /\ members' = [members EXCEPT !["M1"] = r.member]
        /\ nodes' = r.nodes
        /\ elements' = r.elements
        /\ load_cases' = r.load_cases
        /\ model' = r.model
        /\ raised' = r.error
        /\ calls' = [calls EXCEPT !.discretize = @ + 1]
        /\ UNCHANGED solver

NextMember ==
    \/ MemberAddNode
    \/ MemberAddPointLoad
    \/ MemberAddDistributedLoad
    \/ MemberAddThermalLoad
    \/ MemberDiscretize

SpecMember == InitMember /\ [][NextMember]_vars

(***************************************************************************)
(* C1: after the first Member1D.discretize of a member, whatever nodes and *)
(* loads were added before it (loads off the member ends included), the    *)
(* generated elements cover the member span exactly: the first starts at   *)
(* 0, the last ends at the member length, each x_end is the next x_start,  *)
(* every element has x_start < x_end, and there is one generated node      *)
(* more than there are generated elements.                                 *)
(***************************************************************************)
ElementsCoverSpan(mem) ==
    LET ge == mem.generated_elements
        n == Len(ge)
    IN  /\ n >= 1
        /\ elements[ge[1]].x_start = 0
        /\ elements[ge[n]].x_end = mem.length
        /\ \A k \in 1..(n - 1) : elements[ge[k]].x_end = elements[ge[k + 1]].x_start
        /\ \A k \in 1..n : elements[ge[k]].x_start < elements[ge[k]].x_end
        /\ Len(mem.generated_nodes) = n + 1

AnalysisDofs == <<3, 5>>
n_dof_per_node == Len(AnalysisDofs)

\* Model.number_of_nodes and Model.neq
number_of_nodes(mdl) == Cardinality(mdl.nodes)
neq(mdl) == number_of_nodes(mdl) * n_dof_per_node

\* The node of the model whose id is n.
NodeWithId(mdl, ntab, n) == CHOOSE v \in mdl.nodes : ntab[v].id = n

\* The class code that setup_dof_numbers stores for a fixity:
\* 0 free, 1 fixed, 2 spring, 3 fictitious-fixed.
ClassCode(fix) ==
    CASE fix = FREE_DOF -> 0
      [] fix = FIXED_DOF -> 1
      [] fix = SPRING_DOF -> 2
      [] fix = FICTFIXED_DOF -> 3

CountCells(dcm, codes) ==
    Cardinality({c \in (DOMAIN dcm) \X (1..n_dof_per_node) : dcm[c[1]][c[2]] \in codes})

\* Analysis.setup_dof_numbers(model): the connectivity matrix gets the class
\* code of every (node, DOF) cell and the model the equation counts.
SetupDofNumbers(mdl, ntab) ==
    LET dcm == [n \in 1..number_of_nodes(mdl) |->
                   [k \in 1..n_dof_per_node |->
                       ClassCode(ntab[NodeWithId(mdl, ntab, n - 1)].fixity[AnalysisDofs[k]])]]
    IN  [mdl EXCEPT !.dof_connectivity_matrix = dcm,
                    !.neq_free = CountCells(dcm, {0}),
                    !.neq_spring = CountCells(dcm, {2}),
                    !.neq_fixed = CountCells(dcm, {1, 3})]

\* Model.assemble_dof_indices: the double loop from its c-th cell on, counted
\* from 0 over n (outer) and k (inner), with the three counters.
\* A variant that passes over the cells holding a number above the class codes.
RECURSIVE AssembleDofIndicesFrom_SkipNumbered(_, _, _, _, _, _)
AssembleDofIndicesFrom_SkipNumbered(dcm, nn, c, count_free, count_spring, count_fixed) ==
    IF c >= nn * n_dof_per_node THEN dcm
    ELSE LET n == (c \div n_dof_per_node) + 1
             k == (c % n_dof_per_node) + 1
         IN  IF dcm[n][k] = 0
             THEN AssembleDofIndicesFrom_SkipNumbered([dcm EXCEPT ![n][k] = count_free], nn,
                      c + 1, count_free + 1, count_spring, count_fixed)
             ELSE IF dcm[n][k] = 2
             THEN AssembleDofIndicesFrom_SkipNumbered([dcm EXCEPT ![n][k] = count_spring], nn,
                      c + 1, count_free, count_spring + 1, count_fixed)
             ELSE IF dcm[n][k] > 3
             THEN AssembleDofIndicesFrom_SkipNumbered(dcm, nn,
                      c + 1, count_free, count_spring, count_fixed)
             ELSE AssembleDofIndicesFrom_SkipNumbered([dcm EXCEPT ![n][k] = count_fixed], nn,
                      c + 1, count_free, count_spring, count_fixed + 1)

RECURSIVE AssembleDofIndicesFrom(_, _, _, _, _, _)
AssembleDofIndicesFrom(dcm, nn, c, count_free, count_spring, count_fixed) ==
    IF c >= nn * n_dof_per_node THEN dcm
    ELSE LET n == (c \div n_dof_per_node) + 1
             k == (c % n_dof_per_node) + 1
         IN  IF dcm[n][k] = 0
             THEN AssembleDofIndicesFrom([dcm EXCEPT ![n][k] = count_free], nn, c + 1,
                                         count_free + 1, count_spring, count_fixed)
             ELSE IF dcm[n][k] = 2
             THEN AssembleDofIndicesFrom([dcm EXCEPT ![n][k] = count_spring], nn, c + 1,
                                         count_free, count_spring + 1, count_fixed)
             ELSE AssembleDofIndicesFrom([dcm EXCEPT ![n][k] = count_fixed], nn, c + 1,
                                         count_free, count_spring, count_fixed + 1)

\* A variant whose spring counter starts at 0 like the free counter.
AssembleDofIndices_SpringFromZero(mdl) ==
    [mdl EXCEPT !.dof_connectivity_matrix =
        AssembleDofIndicesFrom(@, number_of_nodes(mdl), 0,
                               0, 0, mdl.neq_free + mdl.neq_spring)]

AssembleDofIndices(mdl) ==
    [mdl EXCEPT !.dof_connectivity_matrix =
        AssembleDofIndicesFrom(@, number_of_nodes(mdl), 0,
                               0, mdl.neq_free, mdl.neq_free + mdl.neq_spring)]

(***************************************************************************)
(* SpecDof: a discretized model of up to MaxDofNodes nodes with any fixity *)
(* in the DOFs of the analysis; setup_dof_numbers writes the class codes,  *)
(* assemble_dof_indices numbers them, once or again.                       *)
(***************************************************************************)
DofFixities ==
    {f \in [1..6 -> SupportFixity] :
        \A i \in 1..6 : i \notin Range(AnalysisDofs) => f[i] = FREE_DOF}

InitDof ==
    /\ \E nn \in 1..MaxDofNodes :
        \E fx \in [1..nn -> DofFixities] :
            /\ nodes = [v \in 1..nn |-> [NewNode(v - 1, fx[v], NoSprings) EXCEPT !.id = v - 1]]
            /\ model = [NewModel EXCEPT !.nodes = 1..nn]
    /\ members = <<>>
    /\ elements = <<>>
    /\ load_cases = <<>>
    /\ solver = NoSolver
    /\ raised = None
    /\ calls = [setup |-> 0, assemble |-> 0, codes |-> <<>>, numbered |-> <<>>]

DofSetup ==
    /\ calls.setup = 0
    /\ model' = SetupDofNumbers(model, nodes)
    /\ calls' = [calls EXCEPT !.setup = 1, !.codes = model'.dof_connectivity_matrix]
    /\ UNCHANGED <<members, nodes, elements, load_cases, solver, raised>>

DofAssemble ==
    /\ calls.setup = 1
    /\ calls.assemble < MaxAssemble
    /\ model' = AssembleDofIndices(model)
    /\ calls' = [calls EXCEPT !.assemble = @ + 1,
                              !.numbered = IF calls.assemble = 0
                                           THEN model'.dof_connectivity_matrix ELSE @]
    /\ UNCHANGED <<members, nodes, elements, load_cases, solver, raised>>

NextDof == DofSetup \/ DofAssemble

SpecDof == InitDof /\ [][NextDof]_vars

Cells(dcm) == (DOMAIN dcm) \X (1..n_dof_per_node)

(***************************************************************************)
(* C8: after assemble_dof_indices has run on a connectivity matrix of      *)
(* class codes, with neq_free and neq_spring the numbers of free and       *)
(* spring cells, every cell holds a distinct equation number, the numbers  *)
(* used are exactly 0..neq-1, free cells are numbered 0..n_free-1, spring  *)
(* cells n_free..n_free+n_spring-1, and fixed and fictitious-fixed cells   *)
(* n_free+n_spring and above.                                              *)
(***************************************************************************)
C8_DofClassesNumberedInOrder ==
    calls.assemble = 1 =>
        LET dcm == model.dof_connectivity_matrix
            nf == model.neq_free
            ns == model.neq_spring
        IN  /\ \A c \in Cells(dcm), d \in Cells(dcm) :
                   c # d => dcm[c[1]][c[2]] # dcm[d[1]][d[2]]
            /\ {dcm[c[1]][c[2]] : c \in Cells(dcm)} = 0..(neq(model) - 1)
            /\ \A c \in Cells(dcm) :
                   LET code == calls.codes[c[1]][c[2]]
                       eq == dcm[c[1]][c[2]]
                   IN  /\ code = 0 => eq \in 0..(nf - 1)
                       /\ code = 2 => eq \in nf..(nf + ns - 1)
                       /\ code \in {1, 3} => eq >= nf + ns

\* C8's case: a numbered matrix that holds all four classes, with a fixed
\* cell ahead of a free cell in the loop order.
C8_Witness ==
    /\ calls.assemble = 1
    /\ {calls.codes[c[1]][c[2]] : c \in Cells(calls.codes)} = {0, 1, 2, 3}
    /\ calls.codes[1][1] = 1
    /\ calls.codes[1][2] = 0

(***************************************************************************)
(* C9: running assemble_dof_indices again on a matrix that is already      *)
(* numbered leaves the matrix as the first run numbered it.                *)
(***************************************************************************)
C9_SecondRunLeavesNumbers ==
    calls.assemble = 2 => model.dof_connectivity_matrix = calls.numbered

(***************************************************************************)
(* C9, as the code has it: assemble_dof_indices numbers every cell by the  *)
(* value it holds, read as a class code, numbered before or not.  Run      *)
(* again on a numbered matrix, the cell that holds equation 0 keeps 0, the *)
(* cell that holds equation 2 gets neq_free, and every other cell gets a   *)
(* number from neq_free + neq_spring upwards.                              *)
(***************************************************************************)
C9_SecondRunRenumbersByValue ==
    calls.assemble = 2 =>
        \A c \in Cells(calls.numbered) :
            LET before == calls.numbered[c[1]][c[2]]
                after == model.dof_connectivity_matrix[c[1]][c[2]]
            IN  /\ before = 0 => after = 0
                /\ before = 2 => after = model.neq_free
                /\ before \notin {0, 2} => after >= model.neq_free + model.neq_spring

\* C9's case: a second run that has changed a numbered matrix which held the
\* equation numbers 0, 1 and 2.
C9_Witness ==
    /\ calls.assemble = 2
    /\ model.dof_connectivity_matrix # calls.numbered
    /\ {0, 1, 2} \subseteq {calls.numbered[c[1]][c[2]] : c \in Cells(calls.numbered)}

(***************************************************************************)
(* Model: solve().  The structure is the beam line of                      *)
(* tests/validation/test_singular_stiffness_matrix.py: three collinear     *)
(* nodes N1, N2, N3 along the global X axis and the members M1 = (N1, N2)  *)
(* and M2 = (N2, N3).  Lengths and stiffnesses are scaled so that every    *)
(* stiffness coefficient of element_1d.py is an integer.                   *)
(***************************************************************************)
SpanLength == 2        \* length of each member, in grid units
EI == 8                \* elastic_modulus * inertia_y of the section
SpringStiffness == 8   \* kz of a node on a spring

PIN == <<FIXED_DOF, FREE_DOF, FIXED_DOF, FREE_DOF, FREE_DOF, FREE_DOF>>
CLAMP == <<FIXED_DOF, FREE_DOF, FIXED_DOF, FREE_DOF, FIXED_DOF, FREE_DOF>>
SPRING_Z == <<FREE_DOF, FREE_DOF, SPRING_DOF, FREE_DOF, FREE_DOF, FREE_DOF>>

SpringsOf(fixity) ==
    [i \in 1..6 |-> IF fixity[i] = SPRING_DOF THEN SpringStiffness ELSE 0]

\* Iteration order of a Python set of objects: the order of creation, or its
\* reverse when rev is TRUE.
RECURSIVE ReverseSeq(_)
ReverseSeq(sq) ==
    IF sq = <<>> THEN <<>> ELSE Append(ReverseSeq(Tail(sq)), Head(sq))

SetOrder(S, rev) == IF rev THEN ReverseSeq(SortedSeq(S)) ELSE SortedSeq(S)

MemberOrder(rev) == IF rev THEN <<"M2", "M1">> ELSE <<"M1", "M2">>

\* A variant that numbers the objects from one.
AssignIds_FromOne(tab, S, rev) ==
    LET order == SetOrder(S, rev)
    IN  [v \in DOMAIN tab |->
            IF v \in S THEN [tab[v] EXCEPT !.id = FirstIndex(order, v)] ELSE tab[v]]

\* for i, obj in enumerate(set): obj.id = i
AssignIds(tab, S, rev) ==
    LET order == SetOrder(S, rev)
    IN  [v \in DOMAIN tab |->
            IF v \in S THEN [tab[v] EXCEPT !.id = FirstIndex(order, v) - 1] ELSE tab[v]]

\* Node.get_elements_incidence of node v: <<tot, hng>>.
GetElementsIncidence(v, mdl, ntab, etab) ==
    LET at_start == {e \in mdl.elements : ntab[etab[e].nodes[1]].id = ntab[v].id}
        at_end == {e \in mdl.elements \ at_start : ntab[etab[e].nodes[2]].id = ntab[v].id}
        hng_start == {e \in at_start : etab[e].hinge_start = HINGED_END}
        hng_end == {e \in at_end : etab[e].hinge_end = HINGED_END}
    IN  <<Cardinality(at_start) + Cardinality(at_end),
          Cardinality(hng_start) + Cardinality(hng_end)>>

\* A variant that takes a node for hinged as soon as one element is hinged there.
SetupFictitiousRotationConstraints_AnyHinge(fict, mdl, ntab, etab) ==
    [v \in DOMAIN ntab |->
        IF v \notin mdl.nodes THEN ntab[v]
        ELSE IF fict
        THEN LET inc == GetElementsIncidence(v, mdl, ntab, etab)
             IN  IF inc[2] > 0
                 THEN [ntab[v] EXCEPT !.fixity =
                          [i \in 1..6 |-> IF i \in 4..6 /\ @[i] = FREE_DOF
                                          THEN FICTFIXED_DOF ELSE @[i]]]
                 ELSE ntab[v]
        ELSE [ntab[v] EXCEPT !.fixity =
                 [i \in 1..6 |-> IF i \in 4..6 /\ @[i] = FICTFIXED_DOF
                                 THEN FREE_DOF ELSE @[i]]]]

\* Model.setup_fictitious_rotation_constraints(fict): the node table after it.
\* fixity[3], fixity[4], fixity[5] of the code are entries 4, 5, 6 here.
SetupFictitiousRotationConstraints(fict, mdl, ntab, etab) ==
    [v \in DOMAIN ntab |->
        IF v \notin mdl.nodes THEN ntab[v]
        ELSE IF fict
        THEN LET inc == GetElementsIncidence(v, mdl, ntab, etab)
             IN  IF inc[1] = inc[2]
                 THEN [ntab[v] EXCEPT !.fixity =
                          [i \in 1..6 |-> IF i \in 4..6 /\ @[i] = FREE_DOF
                                          THEN FICTFIXED_DOF ELSE @[i]]]
                 ELSE ntab[v]
        ELSE [ntab[v] EXCEPT !.fixity =
                 [i \in 1..6 |-> IF i \in 4..6 /\ @[i] = FICTFIXED_DOF
                                 THEN FREE_DOF ELSE @[i]]]]

(***************************************************************************)
(* Element stiffness and global assembly.                                  *)
(***************************************************************************)
\* Element1D.get_flexural_xz_stiffness_coefficients for a Navier element
\* (Omega = 0, so lamb = mu = gamma = 1): rows and columns are the DOFs
\* (z, ry) of the start node and (z, ry) of the end node.
GetFlexuralXZStiffnessCoefficients(el) ==
    LET L == el.length
        Z4 == <<0, 0, 0, 0>>
    IN  IF el.hinge_start = CONTINUOUS_END /\ el.hinge_end = CONTINUOUS_END
        THEN LET k11 == (12 * EI) \div (L * L * L)
                 k12 == (6 * EI) \div (L * L)
                 k22 == (4 * EI) \div L
                 k24 == (2 * EI) \div L
             IN  << <<k11, 0 - k12, 0 - k11, 0 - k12>>,
                    <<0 - k12, k22, k12, k24>>,
                    <<0 - k11, k12, k11, k12>>,
                    <<0 - k12, k24, k12, k22>> >>
        ELSE IF el.hinge_start = HINGED_END /\ el.hinge_end = CONTINUOUS_END
        THEN LET k11 == (3 * EI) \div (L * L * L)
                 k14 == (3 * EI) \div (L * L)
                 k44 == (3 * EI) \div L
             IN  << <<k11, 0, 0 - k11, 0 - k14>>,
                    Z4,
                    <<0 - k11, 0, k11, k14>>,
                    <<0 - k14, 0, k14, k44>> >>
        ELSE IF el.hinge_start = CONTINUOUS_END /\ el.hinge_end = HINGED_END
        THEN LET k11 == (3 * EI) \div (L * L * L)
                 k12 == (3 * EI) \div (L * L)
                 k22 == (3 * EI) \div L
             IN  << <<k11, 0 - k12, 0 - k11, 0>>,
                    <<0 - k12, k22, k12, 0>>,
                    <<0 - k11, k12, k11, 0>>,
                    Z4 >>
        ELSE <<Z4, Z4, Z4, Z4>>

Zeros(n) == [i \in 1..n |-> 0]

ZeroMatrix(n) == [r \in 1..n |-> Zeros(n)]

\* Analysis.setup_dof_mapping(model, elem): the gather vector of an element,
\* the equation numbers of its start node followed by those of its end node.
SetupDofMapping(mdl, ntab, el) ==
    LET dcm == mdl.dof_connectivity_matrix
        n1 == ntab[el.nodes[1]].id + 1
        n2 == ntab[el.nodes[2]].id + 1
    IN  [el EXCEPT !.global_dofs = dcm[n1] \o dcm[n2]]

\* Model.assemble_global_dofs
AssembleGlobalDofs(mdl, ntab, etab) ==
    [e \in DOMAIN etab |->
        IF e \in mdl.elements THEN SetupDofMapping(mdl, ntab, etab[e]) ELSE etab[e]]

\* k_global[gd[i], gd[j]] += ke[i][j] for the pairs (i, j) from the p-th on.
\* The matrix is read at every pair, so that it is held as a value and not
\* as a chain of pending updates.
RECURSIVE ScatterAdd(_, _, _, _)
ScatterAdd(K, ke, gd, p) ==
    IF Len(K) = 0 \/ p > Len(gd) * Len(gd) THEN K
    ELSE LET i == ((p - 1) \div Len(gd)) + 1
             j == ((p - 1) % Len(gd)) + 1
         IN  ScatterAdd([K EXCEPT ![gd[i] + 1][gd[j] + 1] = @ + ke[i][j]], ke, gd, p + 1)

\* Solver.assemble_global_stiffness_matrix: the loop over the elements of
\* the model from the k-th of the order on.
RECURSIVE AssembleGlobalStiffnessMatrixFrom(_, _, _, _)
AssembleGlobalStiffnessMatrixFrom(K, order, k, etab) ==
    IF k > Len(order) THEN K
    ELSE AssembleGlobalStiffnessMatrixFrom(
             ScatterAdd(K, GetFlexuralXZStiffnessCoefficients(etab[order[k]]),
                        etab[order[k]].global_dofs, 1),
             order, k + 1, etab)

AssembleGlobalStiffnessMatrix(mdl, etab) ==
    [mdl EXCEPT !.k_global =
        AssembleGlobalStiffnessMatrixFrom(@, SortedSeq(mdl.elements), 1, etab)]

\* The (node, DOF) cells of the model whose fixity is a spring, in the order
\* of their equation numbers.
SpringCells(mdl, ntab) ==
    {c \in Cells(mdl.dof_connectivity_matrix) :
        ntab[NodeWithId(mdl, ntab, c[1] - 1)].fixity[AnalysisDofs[c[2]]] = SPRING_DOF}

\* Analysis.assemble_spring_stiffness(model): the spring coefficient of every
\* spring DOF goes to spring_stiffness_global and onto the diagonal of k_global.
RECURSIVE AssembleSpringStiffnessFrom(_, _, _)
AssembleSpringStiffnessFrom(mdl, ntab, todo) ==
    IF todo = {} THEN mdl
    ELSE LET c == CHOOSE x \in todo : TRUE
             eq == mdl.dof_connectivity_matrix[c[1]][c[2]]
             kz == ntab[NodeWithId(mdl, ntab, c[1] - 1)].spring_stiffness[AnalysisDofs[c[2]]]
         IN  AssembleSpringStiffnessFrom(
                 [mdl EXCEPT !.k_global[eq + 1][eq + 1] = @ + kz,
                             !.spring_stiffness_global[eq - mdl.neq_free + 1] = kz],
                 ntab, todo \ {c})

AssembleSpringStiffness(mdl, ntab) ==
    AssembleSpringStiffnessFrom(
        [mdl EXCEPT !.spring_stiffness_global = Zeros(mdl.neq_spring)],
        ntab, SpringCells(mdl, ntab))

(***************************************************************************)
(* LinearStaticSolver: the steps of solve().                               *)
(***************************************************************************)
\* Solver.init_global_matrices_vectors: a zero k_global of neq x neq and zero
\* u_global and f_global of neq entries for every load case.
ZeroVector(n) == [kind |-> "zeros", size |-> n]

InitGlobalMatricesVectors(mdl, lcs) ==
    [model |-> [mdl EXCEPT !.k_global = ZeroMatrix(neq(mdl))],
     load_cases |-> [lc \in DOMAIN lcs |->
                        [lcs[lc] EXCEPT !.u_global = ZeroVector(neq(mdl)),
                                        !.f_global = ZeroVector(neq(mdl))]]]

\* apply_prescribed_displacements, assemble_nodal_loads and
\* assemble_equivalent_nodal_loads of one load case: the prescribed
\* displacements go into u_global, the nodal and the element loads into
\* f_global.
AssembleLoads(lc_rec) ==
    [lc_rec EXCEPT
        !.u_global = IF lc_rec.prescribed_displacements = <<>> THEN @
                     ELSE [kind |-> "prescribed", size |-> @.size,
                           prescribed_displacements |-> lc_rec.prescribed_displacements],
        !.f_global = [kind |-> "loads", size |-> @.size,
                      nodal_loads |-> lc_rec.nodal_loads,
                      element_distributed_loads |-> lc_rec.element_distributed_loads,
                      element_thermal_loads |-> lc_rec.element_thermal_loads]]

Abs(a) == IF a < 0 THEN 0 - a ELSE a

RECURSIVE GCD(_, _)
GCD(a, b) == IF b = 0 THEN a ELSE GCD(b, a % b)

RECURSIVE RowGCD(_, _)
RowGCD(row, k) == IF k > Len(row) THEN 0 ELSE GCD(Abs(row[k]), RowGCD(row, k + 1))

\* One row of Gaussian elimination in integers: row minus the multiple of
\* the pivot row that clears column c, divided by the gcd of its entries.
Eliminate(row, pivot, c) ==
    IF row[c] = 0 THEN row
    ELSE LET g == GCD(Abs(pivot[c]), Abs(row[c]))
             r == [k \in DOMAIN row |->
                      row[k] * (pivot[c] \div g) - pivot[k] * (row[c] \div g)]
             d == RowGCD(r, 1)
         IN  IF d = 0 THEN r ELSE [k \in DOMAIN r |-> r[k] \div d]

\* TRUE when the square matrix of the given rows has no pivot in some column
\* from c on, so that its determinant is 0.
RECURSIVE RankDeficient(_, _, _)
RankDeficient(rows, c, n) ==
    IF c > n THEN FALSE
    ELSE LET piv == {r \in DOMAIN rows : rows[r][c] # 0}
         IN  IF piv = {} THEN TRUE
             ELSE LET r == Min(piv)
                  IN  RankDeficient(
                          [k \in 1..(Len(rows) - 1) |->
                              Eliminate(rows[IF k < r THEN k ELSE k + 1], rows[r], c)],
                          c + 1, n)

\* np.linalg.det(k_ff.todense()) < 10.0e-12 for the leading m x m block of
\* k_global.  k_global is a sum of positive semi-definite integer matrices,
\* so its determinant is 0 or at least 1; the determinant of the empty
\* matrix is 1.
SingularStiffness(K, m) ==
    RankDeficient([r \in 1..m |-> [c \in 1..m |-> K[r][c]]], 1, m)

\* The messages of the exceptions the model raises, and their classes.
SingularMessage == "ValueError: Singular stiffness matrix."
NotInitializedMessage == "ValueError: 'u_global' is not initialized."
ShapeMessage == "ValueError: matmul: mismatch in core dimension"

ErrorClass(message) ==
    IF message \in {SingularMessage, NotInitializedMessage, ShapeMessage}
    THEN "ValueError" ELSE message

\* The class of the errors raised for a wrong configuration (Node.validate_fixity,
\* Node.add_prescribed_displacement, the unknown-type branches of Element1D).
ConfigurationErrorClass == "ValueError"

\* LinearStaticSolver.solve_load_case: the load case after the call and the
\* exception raised, None when it returns.
SolveLoadCase(mdl, lc_rec) ==
    LET m == mdl.neq_free + mdl.neq_spring
    IN  IF SingularStiffness(mdl.k_global, m)
        THEN [load_case |-> lc_rec, error |-> SingularMessage]
        ELSE [load_case |->
                 [lc_rec EXCEPT
                     !.u_global = [kind |-> "solution", size |-> neq(mdl), free |-> m,
                                   f_global |-> lc_rec.f_global,
                                   u_global |-> lc_rec.u_global],
                     !.f_global = [kind |-> "reactions", size |-> neq(mdl), free |-> m,
                                   f_global |-> lc_rec.f_global,
                                   u_global |-> lc_rec.u_global]],
              error |-> None]

\* Element1D.get_element_internal_actions(load_case) and
\* Element1D.get_element_local_displacements(load_case): the exception
\* raised, None when the call returns an array.
GetElementInternalActions(el, lc_rec) ==
    IF lc_rec.u_global.kind = "None" THEN NotInitializedMessage
    ELSE IF el.global_dofs = <<>> THEN ShapeMessage
    ELSE None

GetElementLocalDisplacements(el, lc_rec) ==
    IF lc_rec.u_global.kind = "None" THEN NotInitializedMessage
    ELSE IF el.global_dofs = <<>> THEN ShapeMessage
    ELSE None

(***************************************************************************)
(* SpecSolve: the caller builds the beam line with some supports, hinges   *)
(* and loads, then calls solve(), once or again, and reads element results *)
(* between the calls.  solve() is taken step by step; an exception ends    *)
(* the call where it is raised and leaves what the earlier steps wrote.    *)
(***************************************************************************)
SolveCases == {"LC1", "LC2"}

CaseOrder(rev) == IF rev THEN <<"LC2", "LC1">> ELSE <<"LC1", "LC2">>

\* The add_*_load calls of the caller before the first solve().
LoadScenarios ==
    { <<>>,
      << [op |-> "point", member |-> "M1", x |-> 1, x_end |-> 1, load_case |-> "LC1"] >>,
      << [op |-> "point", member |-> "M1", x |-> SpanLength, x_end |-> SpanLength,
          load_case |-> "LC1"] >>,
      << [op |-> "distributed", member |-> "M2", x |-> 0, x_end |-> SpanLength,
          load_case |-> "LC2"] >>,
      << [op |-> "point", member |-> "M1", x |-> 1, x_end |-> 1, load_case |-> "LC1"],
         [op |-> "point", member |-> "M2", x |-> 1, x_end |-> 1, load_case |-> "LC2"] >> }

RECURSIVE ApplyLoadCalls(_, _, _)
ApplyLoadCalls(mems, todo, k) ==
    IF k > Len(todo) THEN mems
    ELSE LET cl == todo[k]
         IN  ApplyLoadCalls(
                 [mems EXCEPT ![cl.member] =
                     IF cl.op = "point" THEN AddPointLoad(@, cl.x, cl.load_case, 1)
                     ELSE AddDistributedLoad(@, cl.x, cl.x_end, cl.load_case, 1)],
                 todo, k + 1)

\* The body of solve() up to the loop over the load cases, in program order.
SolveSteps ==
    << "discretize_members", "setup_fictitious_rotation_constraints",
       "init_global_matrices_vectors", "setup_dof_numbers", "assemble_dof_indices",
       "assemble_global_dofs", "assemble_global_stiffness_matrix",
       "assemble_spring_stiffness", "load_cases" >>

\* A variant that assembles the stiffness matrix ahead of the gather vectors.
StepAfter_StiffnessBeforeGather(step) ==
    CASE step = "assemble_dof_indices" -> "assemble_global_stiffness_matrix"
      [] step = "assemble_global_stiffness_matrix" -> "assemble_global_dofs"
      [] step = "assemble_global_dofs" -> "assemble_spring_stiffness"
      [] OTHER -> SolveSteps[FirstIndex(SolveSteps, step) + 1]

\* The statement of solve() that follows the given one.
StepAfter(step) == SolveSteps[FirstIndex(SolveSteps, step) + 1]

\* The body of the loop over the load cases, in program order: lines 138-150,
\* line 156, lines 162-176 and line 178; "load_cases" is the loop head.
CaseSteps == << "assemble_loads", "solve_load_case", "save_results", "is_solved", "load_cases" >>

\* A variant that sets the flag of the load case ahead of the save_* calls.
CaseStepAfter_FlagBeforeSave(step) ==
    CASE step = "solve_load_case" -> "is_solved"
      [] step = "is_solved" -> "save_results"
      [] step = "save_results" -> "load_cases"
      [] OTHER -> CaseSteps[FirstIndex(CaseSteps, step) + 1]

\* The statement of the loop body that follows the given one.
CaseStepAfter(step) == CaseSteps[FirstIndex(CaseSteps, step) + 1]

\* No load case has been through any statement of the loop body.
NoCases == [lc \in SolveCases |-> <<>>]

\* cases[lc] lists the statements of the loop body that the running solve()
\* has completed for load case lc.
IdleSolver ==
    [pc |-> "idle", rev |-> FALSE, members |-> <<>>, queue |-> <<>>, trace |-> <<>>,
     cases |-> NoCases]

NoGetter == [op |-> "None", load_case |-> "None"]

\* What a solve() leaves behind of the discretization: the generated lists of
\* the members, the node and element sets of the model, and the loads
\* accumulated on the load cases.
Snapshot(mems, mdl, lcs) ==
    [generated |-> [m \in DOMAIN mems |->
                       <<mems[m].generated_nodes, mems[m].generated_elements>>],
     nodes |-> mdl.nodes,
     elements |-> mdl.elements,
     loads |-> [lc \in DOMAIN lcs |->
                   <<lcs[lc].nodal_loads, lcs[lc].element_distributed_loads,
                     lcs[lc].element_thermal_loads>>]]

Vectors(lcs) == [lc \in DOMAIN lcs |-> <<lcs[lc].u_global, lcs[lc].f_global>>]

InitSolve ==
    /\ \E f1 \in {PIN, CLAMP}, f2 \in {AllFree, PIN, SPRING_Z}, f3 \in {AllFree, PIN} :
          nodes = << NewNode(0, f1, SpringsOf(f1)),
                     NewNode(SpanLength, f2, SpringsOf(f2)),
                     NewNode(2 * SpanLength, f3, SpringsOf(f3)) >>
    /\ \E h1 \in BeamConnection \X BeamConnection, h2 \in BeamConnection,
          todo \in LoadScenarios :
          members = ApplyLoadCalls(
                        [m \in {"M1", "M2"} |->
                            IF m = "M1" THEN NewMember(1, 2, SpanLength, h1)
                            ELSE NewMember(2, 3, SpanLength, <<h2, CONTINUOUS_END>>)],
                        todo, 1)
    /\ elements = <<>>
    /\ load_cases = [lc \in SolveCases |-> NewLoadCase]
    /\ model = NewModel
    /\ solver = IdleSolver
    /\ raised = None
    /\ calls = [solves |-> 0, returned |-> 0, outcome |-> "none", failed_step |-> "none",
                getter |-> NoGetter, solved |-> {},
                first |-> Snapshot(members, model, load_cases),
                vectors_before |-> Vectors(load_cases),
                fixity_before |-> [v \in DOMAIN nodes |-> nodes[v].fixity]]

\* What the caller sees when solve() raises at the given step.
SolveRaises(step, message) ==
    /\ solver' = [solver EXCEPT !.pc = "idle", !.trace = Append(@, step)]
    /\ raised' = message
    /\ calls' = [calls EXCEPT !.solves = @ + 1, !.outcome = "failed",
                             !.failed_step = step,
                             !.vectors_before = Vectors(load_cases)]

\* A step of solve() that ends normally.
SolveGoes(step) ==
    /\ solver' = [solver EXCEPT !.pc = StepAfter(step), !.trace = Append(@, step)]
    /\ raised' = None

\* A statement of the loop body that ends normally for the load case at the
\* head of the queue; the last statement of the body takes the next load case.
CaseGoes(step) ==
    /\ solver' = [solver EXCEPT
                     !.pc = CaseStepAfter(step),
                     !.trace = Append(@, step),
                     !.cases[Head(solver.queue)] = Append(@, step),
                     !.queue = IF CaseStepAfter(step) = "load_cases" THEN Tail(@) ELSE @]
    /\ raised' = None

\* solve() is called: the iteration orders of the sets of the model are fixed
\* for the call.
SolveBegin ==
    /\ solver.pc = "idle"
    /\ calls.solves < MaxSolves
    /\ \E rev \in BOOLEAN :
          solver' = [pc |-> "discretize_members", rev |-> rev, members |-> MemberOrder(rev),
                     queue |-> CaseOrder(rev), trace |-> <<>>, cases |-> NoCases]
    /\ raised' = None
    /\ calls' = [calls EXCEPT !.outcome = "running", !.getter = NoGetter]
    /\ UNCHANGED <<members, nodes, elements, load_cases, model>>

\* Model.discretize_members: member.discretize(self) for the next member of
\* self.members.  An exception ends solve() before any id is assigned.
SolveDiscretizeMember ==
    /\ solver.pc = "discretize_members"
    /\ solver.members # <<>>
    /\ LET m == Head(solver.members)
           r == Discretize(m, members[m], nodes, elements, load_cases, model)
       IN  /\ members' = [members EXCEPT ![m] = r.member]
           /\ nodes' = r.nodes
           /\ elements' = r.elements
           /\ load_cases' = r.load_cases
           /\ model' = r.model
           /\ IF r.error = None
              THEN /\ solver' = [solver EXCEPT !.members = Tail(@)]
                   /\ raised' = None
                   /\ UNCHANGED calls
              ELSE SolveRaises("discretize_members", r.error)

\* Model.discretize_members: the ids of the nodes and of the elements.
SolveAssignIds ==
    /\ solver.pc = "discretize_members"
    /\ solver.members = <<>>
    /\ nodes' = AssignIds(nodes, model.nodes, solver.rev)
    /\ elements' = AssignIds(elements, model.elements, solver.rev)
    /\ SolveGoes("discretize_members")
    /\ UNCHANGED <<members, load_cases, model, calls>>

SolveSetupFictitious ==
    /\ solver.pc = "setup_fictitious_rotation_constraints"
    /\ nodes' = SetupFictitiousRotationConstraints(TRUE, model, nodes, elements)
    /\ SolveGoes("setup_fictitious_rotation_constraints")
    /\ calls' = [calls EXCEPT !.fixity_before = [v \in DOMAIN nodes |-> nodes[v].fixity]]
    /\ UNCHANGED <<members, elements, load_cases, model>>

SolveInitGlobal ==
    /\ solver.pc = "init_global_matrices_vectors"
    /\ LET r == InitGlobalMatricesVectors(model, load_cases)
       IN  model' = r.model /\ load_cases' = r.load_cases
    /\ SolveGoes("init_global_matrices_vectors")
    /\ UNCHANGED <<members, nodes, elements, calls>>

SolveSetupDofNumbers ==
    /\ solver.pc = "setup_dof_numbers"
    /\ model' = SetupDofNumbers(model, nodes)
    /\ SolveGoes("setup_dof_numbers")
    /\ UNCHANGED <<members, nodes, elements, load_cases, calls>>

SolveAssembleDofIndices ==
    /\ solver.pc = "assemble_dof_indices"
    /\ model' = AssembleDofIndices(model)
    /\ SolveGoes("assemble_dof_indices")
    /\ UNCHANGED <<members, nodes, elements, load_cases, calls>>

SolveAssembleGlobalDofs ==
    /\ solver.pc = "assemble_global_dofs"
    /\ elements' = AssembleGlobalDofs(model, nodes, elements)
    /\ SolveGoes("assemble_global_dofs")
    /\ UNCHANGED <<members, nodes, load_cases, model, calls>>

SolveAssembleStiffness ==
    /\ solver.pc = "assemble_global_stiffness_matrix"
    /\ model' = AssembleGlobalStiffnessMatrix(model, elements)
    /\ SolveGoes("assemble_global_stiffness_matrix")
    /\ UNCHANGED <<members, nodes, elements, load_cases, calls>>

SolveAssembleSpring ==
    /\ solver.pc = "assemble_spring_stiffness"
    /\ model' = AssembleSpringStiffness(model, nodes)
    /\ SolveGoes("assemble_spring_stiffness")
    /\ UNCHANGED <<members, nodes, elements, load_cases, calls>>

\* for i, load_case in enumerate(self.model.load_cases): lines 138-150 of the
\* body for the load case at the head of the queue.
SolveAssembleLoads ==
    /\ solver.pc = "load_cases"
    /\ solver.queue # <<>>
    /\ load_cases' = [load_cases EXCEPT ![Head(solver.queue)] = AssembleLoads(@)]
    /\ CaseGoes("assemble_loads")
    /\ UNCHANGED <<members, nodes, elements, model, calls>>

SolveSolveLoadCase ==
    /\ solver.pc = "solve_load_case"
    /\ LET lc == Head(solver.queue)
           r == SolveLoadCase(model, load_cases[lc])
       IN  /\ load_cases' = [load_cases EXCEPT ![lc] = r.load_case]
           /\ IF r.error = None
              THEN /\ CaseGoes("solve_load_case")
                   /\ calls' = [calls EXCEPT !.solved = @ \cup {lc},
                                             !.vectors_before = Vectors(load_cases)]
              ELSE /\ SolveRaises("solve_load_case", r.error)
    /\ UNCHANGED <<members, nodes, elements, model>>

\* save_displacements ... save_member_internal_displacements (lines 162-176)
\* for the load case at the head of the queue.
SolveSaveResults ==
    /\ solver.pc = "save_results"
    /\ LET lc == Head(solver.queue)
       IN  /\ nodes' = [v \in DOMAIN nodes |->
                           IF v \in model.nodes
                           THEN [nodes[v] EXCEPT !.results = @ \cup {lc}] ELSE nodes[v]]
           /\ elements' = [e \in DOMAIN elements |->
                              IF e \in model.elements
                              THEN [elements[e] EXCEPT !.internal_forces = @ \cup {lc}]
                              ELSE elements[e]]
           /\ members' = [m \in DOMAIN members |->
                             [members[m] EXCEPT !.results = @ \cup {lc}]]
    /\ CaseGoes("save_results")
    /\ UNCHANGED <<load_cases, model, calls>>

\* load_case.is_solved = True (line 178) for the load case at the head of the
\* queue.
SolveMarkSolved ==
    /\ solver.pc = "is_solved"
    /\ load_cases' = [load_cases EXCEPT ![Head(solver.queue)].is_solved = TRUE]
    /\ CaseGoes("is_solved")
    /\ UNCHANGED <<members, nodes, elements, model, calls>>

\* solve() returns after the last load case.
SolveReturn ==
    /\ solver.pc = "load_cases"
    /\ solver.queue = <<>>
    /\ solver' = [solver EXCEPT !.pc = "idle"]
    /\ raised' = None
    /\ calls' = [calls EXCEPT !.solves = @ + 1, !.returned = @ + 1,
                              !.outcome = "returned",
                              !.first = IF calls.returned = 0
                                        THEN Snapshot(members, model, load_cases) ELSE @]
    /\ UNCHANGED <<members, nodes, elements, load_cases, model>>

\* The caller discretizes one member itself before the first solve().
CallDiscretize ==
    /\ solver.pc = "idle"
    /\ calls.solves = 0
    /\ elements = <<>>
    /\ \E m \in DOMAIN members :
        LET r == Discretize(m, members[m], nodes, elements, load_cases, model)
        IN  /\ members' = [members EXCEPT ![m] = r.member]
            /\ nodes' = r.nodes
            /\ elements' = r.elements
            /\ load_cases' = r.load_cases
            /\ model' = r.model
            /\ raised' = r.error
    /\ calls' = [calls EXCEPT !.getter = NoGetter]
    /\ UNCHANGED solver

\* The caller reads an element's results for a load case between solves.
CallGetElementInternalActions ==
    /\ solver.pc = "idle"
    /\ \E e \in DOMAIN elements, lc \in SolveCases :
        /\ raised' = GetElementInternalActions(elements[e], load_cases[lc])
        /\ calls' = [calls EXCEPT !.getter = [op |-> "get_element_internal_actions",
                                              load_case |-> lc]]
    /\ UNCHANGED <<members, nodes, elements, load_cases, model, solver>>

CallGetElementLocalDisplacements ==
    /\ solver.pc = "idle"
    /\ \E e \in DOMAIN elements, lc \in SolveCases :
        /\ raised' = GetElementLocalDisplacements(elements[e], load_cases[lc])
        /\ calls' = [calls EXCEPT !.getter = [op |-> "get_element_local_displacements",
                                              load_case |-> lc]]
    /\ UNCHANGED <<members, nodes, elements, load_cases, model, solver>>

NextSolve ==
    \/ SolveBegin
    \/ SolveDiscretizeMember
    \/ SolveAssignIds
    \/ SolveSetupFictitious
    \/ SolveInitGlobal
    \/ SolveSetupDofNumbers
    \/ SolveAssembleDofIndices
    \/ SolveAssembleGlobalDofs
    \/ SolveAssembleStiffness
    \/ SolveAssembleSpring
    \/ SolveAssembleLoads
    \/ SolveSolveLoadCase
    \/ SolveSaveResults
    \/ SolveMarkSolved
    \/ SolveReturn
    \/ CallDiscretize
    \/ CallGetElementInternalActions
    \/ CallGetElementLocalDisplacements

SpecSolve == InitSolve /\ [][NextSolve]_vars

\* The statement of solve() that ended last.
LastStep == IF solver.trace = <<>> THEN "none" ELSE solver.trace[Len(solver.trace)]

\* solve() has ended and the caller has called nothing since.
SolveEnded(outcome) ==
    /\ solver.pc = "idle"
    /\ calls.outcome = outcome
    /\ calls.getter = NoGetter

(***************************************************************************)
(* C2: a second solve() on an unchanged model leaves the generated nodes   *)
(* and elements of every member, the node and element sets of the model    *)
(* and the loads accumulated on every load case as the first solve() left  *)
(* them.                                                                   *)
(***************************************************************************)
C2_ResolveOverwrites ==
    (SolveEnded("returned") /\ calls.returned = 2) =>
        Snapshot(members, model, load_cases) = calls.first

(***************************************************************************)
(* C3: whenever solve() raises, no load case has is_solved = True in the   *)
(* state it leaves, whatever an earlier solve() left behind.               *)
(***************************************************************************)
C3_FailedSolveLeavesNothingSolved ==
    SolveEnded("failed") => \A lc \in SolveCases : ~load_cases[lc].is_solved

(***************************************************************************)
(* C4: when K_ff is singular, solve() ends with an error of a class other  *)
(* than the class of the configuration errors, and the u_global and        *)
(* f_global of no load case are replaced by solve_load_case.               *)
(***************************************************************************)
C4_SingularRaisesDedicatedError ==
    (SolveEnded("failed") /\ calls.failed_step = "solve_load_case") =>
        /\ ErrorClass(raised) # ConfigurationErrorClass
        /\ Vectors(load_cases) = calls.vectors_before

(***************************************************************************)
(* C5: get_element_internal_actions and get_element_local_displacements    *)
(* raise the 'not initialized' error for every load case for which         *)
(* solve_load_case has not completed, in whatever state the call is made.  *)
(***************************************************************************)
C5_UnsolvedReadRaises ==
    (calls.getter # NoGetter /\ calls.getter.load_case \notin calls.solved) =>
        raised = NotInitializedMessage

(***************************************************************************)
(* C6: after solve() has returned, no node of the model has a              *)
(* fictitious-fixed DOF.                                                   *)
(***************************************************************************)
C6_NoFictitiousAfterSolve ==
    SolveEnded("returned") =>
        \A v \in model.nodes, d \in 1..6 : nodes[v].fixity[d] # FICTFIXED_DOF

\* Every element of the model that has node v at an end is hinged at that end.
AllIncidentHinged(v) ==
    \A e \in model.elements :
        /\ elements[e].nodes[1] = v => elements[e].hinge_start = HINGED_END
        /\ elements[e].nodes[2] = v => elements[e].hinge_end = HINGED_END

(***************************************************************************)
(* C7: setup_fictitious_rotation_constraints(True), run after              *)
(* discretize_members, turns a DOF into a fictitious-fixed one exactly     *)
(* when the DOF is rotational (entry 4, 5 or 6 of the fixity, index 3, 4   *)
(* or 5 of the code), was free, and belongs to a node of the model whose   *)
(* every incident element is hinged at that node; it changes no other DOF. *)
(***************************************************************************)
C7_FictitiousExactlyOnHingedNodes ==
    LastStep = "setup_fictitious_rotation_constraints" =>
        \A v \in DOMAIN nodes, d \in 1..6 :
            LET before == calls.fixity_before[v][d]
                after == nodes[v].fixity[d]
            IN  /\ (after # before) =>
                       (after = FICTFIXED_DOF /\ d \in 4..6 /\ before = FREE_DOF)
                /\ (after # before) <=>
                       (/\ d \in 4..6
                        /\ before = FREE_DOF
                        /\ v \in model.nodes
                        /\ AllIncidentHinged(v))

\* C7's case: the call has changed a node that elements are hinged to, and
\* has left alone a free rotation of a node with one hinged and one rigidly
\* attached element.
C7_Witness ==
    /\ LastStep = "setup_fictitious_rotation_constraints"
    /\ \E v \in model.nodes :
          /\ nodes[v].fixity[5] = FICTFIXED_DOF
          /\ calls.fixity_before[v][5] = FREE_DOF
          /\ \E e \in model.elements : v \in Range(elements[e].nodes)
    /\ \E v \in model.nodes :
          /\ nodes[v].fixity[5] = FREE_DOF
          /\ \E e \in model.elements :
                elements[e].nodes[1] = v /\ elements[e].hinge_start = HINGED_END
          /\ \E e \in model.elements :
                elements[e].nodes[2] = v /\ elements[e].hinge_end = CONTINUOUS_END

\* Every occurrence of statement b in the trace of the running solve() has
\* an occurrence of statement a before it.
Precedes(a, b) ==
    \A j \in DOMAIN solver.trace :
        solver.trace[j] = b => \E i \in 1..(j - 1) : solver.trace[i] = a

(***************************************************************************)
(* C10: in every run of solve(), discretize_members has ended (every       *)
(* member discretized, ids assigned) before setup_dof_numbers and          *)
(* assemble_dof_indices run, assemble_dof_indices and assemble_global_dofs *)
(* have ended before assemble_global_stiffness_matrix runs, and            *)
(* assemble_global_stiffness_matrix and assemble_spring_stiffness have     *)
(* ended before solve_load_case is called for the first load case.         *)
(***************************************************************************)
C10_PhasesInOrder ==
    /\ Precedes("discretize_members", "setup_dof_numbers")
    /\ Precedes("discretize_members", "assemble_dof_indices")
    /\ Precedes("setup_dof_numbers", "assemble_dof_indices")
    /\ Precedes("assemble_dof_indices", "assemble_global_stiffness_matrix")
    /\ Precedes("assemble_global_dofs", "assemble_global_stiffness_matrix")
    /\ Precedes("assemble_global_stiffness_matrix", "solve_load_case")
    /\ Precedes("assemble_spring_stiffness", "solve_load_case")
    /\ (\E j \in DOMAIN solver.trace : solver.trace[j] = "setup_dof_numbers") =>
           \A m \in DOMAIN members : members[m].generated_elements # <<>>
    /\ (\E j \in DOMAIN solver.trace : solver.trace[j] = "assemble_global_stiffness_matrix") =>
           \A e \in model.elements : elements[e].global_dofs # <<>>

\* C10's case: a second run of solve() has solved its first load case.
C10_Witness ==
    /\ calls.returned = 1
    /\ solver.pc = "save_results"
    /\ Len(solver.queue) = 2

\* The statements of the loop body up to the k-th.
CasePrefix(k) == SubSeq(CaseSteps, 1, k)

\* The running solve() has cached results of load case lc (lines 162-176).
PostProcessed(lc) == "save_results" \in Range(solver.cases[lc])

\* u_global and f_global of load case lc hold what solve_load_case computed.
Populated(lc) ==
    /\ load_cases[lc].u_global.kind = "solution"
    /\ load_cases[lc].f_global.kind = "reactions"

Numeric(num, den) == [kind |-> "numeric", num |-> num, den |-> den]

RECURSIVE Dot(_, _, _)
Dot(a, b, k) == IF k > Len(a) THEN 0 ELSE a[k] * b[k] + Dot(a, b, k + 1)

\* K @ v
MatVec(K, v) == [r \in DOMAIN K |-> Dot(K[r], v, 1)]

\* K[r0:r1, c0:c1] with the bounds of the code given 1-based and inclusive.
Block(K, r0, r1, c0, c1) ==
    [r \in 1..(r1 - r0 + 1) |-> [c \in 1..(c1 - c0 + 1) |-> K[r0 + r - 1][c0 + c - 1]]]

\* The matrix A without its first row and its c-th column.
Minor(A, c) ==
    [r \in 1..(Len(A) - 1) |->
        [k \in 1..(Len(A) - 1) |-> A[r + 1][IF k < c THEN k ELSE k + 1]]]

\* np.linalg.det, by expansion along the first row from column c on; the
\* determinant of the empty matrix is 1.
RECURSIVE Det(_)
RECURSIVE DetExpand(_, _)
DetExpand(A, c) ==
    IF c > Len(A) THEN 0
    ELSE (IF A[1][c] = 0 THEN 0
          ELSE (IF c % 2 = 1 THEN 1 ELSE 0 - 1) * A[1][c] * Det(Minor(A, c)))
         + DetExpand(A, c + 1)

Det(A) == IF Len(A) = 0 THEN 1 ELSE IF Len(A) = 1 THEN A[1][1] ELSE DetExpand(A, 1)

\* sp.sparse.linalg.spsolve(A, b) times det(A): entry i is the determinant of
\* A with its i-th column replaced by b (Cramer's rule).
SpSolveTimesDet(A, b) ==
    [i \in DOMAIN A |->
        Det([r \in DOMAIN A |-> [c \in DOMAIN A |-> IF c = i THEN b[r] ELSE A[r][c]]])]

\* The (node, DOF) cell of the connectivity matrix that holds equation eq.
CellOfEquation(mdl, eq) ==
    CHOOSE c \in Cells(mdl.dof_connectivity_matrix) :
        mdl.dof_connectivity_matrix[c[1]][c[2]] = eq

\* dict[node].components += components, with a zero entry created first when
\* the node has none (Node.add_nodal_load, Node.add_prescribed_displacement).
DictAddVector(d, key, v) ==
    IF key \in DOMAIN d THEN [d EXCEPT ![key] = [i \in DOMAIN v |-> @[i] + v[i]]]
    ELSE d @@ (key :> v)

\* Analysis.apply_prescribed_displacements(model, load_case): the prescribed
\* value of every fixed DOF goes to its equation of u_global.
ApplyPrescribedDisplacements(mdl, ntab, lc_rec) ==
    [lc_rec EXCEPT !.u_global =
        Numeric([e \in 1..neq(mdl) |->
                    LET c == CellOfEquation(mdl, e - 1)
                        v == NodeWithId(mdl, ntab, c[1] - 1)
                        d == AnalysisDofs[c[2]]
                    IN  IF v \in DOMAIN lc_rec.prescribed_displacements
                           /\ ntab[v].fixity[d] = FIXED_DOF
                        THEN lc_rec.prescribed_displacements[v][d] ELSE 0], 1)]

\* Analysis.assemble_nodal_loads(model, load_case): every component of every
\* nodal load is added to its equation of f_global.
AssembleNodalLoads(mdl, ntab, lc_rec) ==
    [lc_rec EXCEPT !.f_global =
        Numeric([e \in 1..neq(mdl) |->
                    LET c == CellOfEquation(mdl, e - 1)
                        v == NodeWithId(mdl, ntab, c[1] - 1)
                        d == AnalysisDofs[c[2]]
                    IN  IF v \in DOMAIN lc_rec.nodal_loads
                        THEN lc_rec.nodal_loads[v][d] ELSE 0], 1)]

\* A variant that adds the applied loads of the fixed DOFs instead of
\* reversing them.
FixedReactions_AppliedNotReversed(K, m, n, D, f_c, u_f, u_c) ==
    LET k_cf == Block(K, m + 1, n, 1, m)
        k_cc == Block(K, m + 1, n, m + 1, n)
    IN  [i \in 1..(n - m) |->
            D * f_c[i] + Dot(k_cf[i], u_f, 1) + D * Dot(k_cc[i], u_c, 1)]

\* f_c = -f_c + k_cf @ u_f + k_cc @ u_c (line 76), times D = det(k_ff); u_f is
\* given times D.
FixedReactions(K, m, n, D, f_c, u_f, u_c) ==
    LET k_cf == Block(K, m + 1, n, 1, m)
        k_cc == Block(K, m + 1, n, m + 1, n)
    IN  [i \in 1..(n - m) |->
            (0 - D * f_c[i]) + Dot(k_cf[i], u_f, 1) + D * Dot(k_cc[i], u_c, 1)]

\* LinearStaticSolver.solve_load_case(load_case) with numeric vectors: the
\* load cases after the call, every entry of the new u_global and f_global
\* times D = det(k_ff).  model and lcs are the objects the method can reach.
SolveLoadCaseOf(mdl, lcs, lc) ==
    LET K == mdl.k_global
        m == mdl.neq_free + mdl.neq_spring
        n == neq(mdl)
        k_ff == Block(K, 1, m, 1, m)
        k_fc == Block(K, 1, m, m + 1, n)
        D == Det(k_ff)
        f == lcs[lc].f_global.num
        u == lcs[lc].u_global.num
        f_f == SubSeq(f, 1, m)
        f_c == SubSeq(f, m + 1, n)
        u_c == SubSeq(u, m + 1, n)
        u_f == SpSolveTimesDet(k_ff, [i \in 1..m |-> f_f[i] - Dot(k_fc[i], u_c, 1)])
        f_s == [i \in 1..mdl.neq_spring |->
                   0 - mdl.spring_stiffness_global[i] * u_f[mdl.neq_free + i]]
        f_f_new == [i \in 1..m |->
                       IF i > mdl.neq_free THEN f_s[i - mdl.neq_free] ELSE D * f_f[i]]
    IN  IF D <= 0
        THEN [model |-> mdl, load_cases |-> lcs, error |-> SingularMessage]
        ELSE [model |-> mdl,
              load_cases |->
                  [lcs EXCEPT
                      ![lc].u_global = Numeric(u_f \o [i \in 1..(n - m) |-> D * u_c[i]], D),
                      ![lc].f_global =
                          Numeric(f_f_new \o FixedReactions(K, m, n, D, f_c, u_f, u_c), D)],
              error |-> None]

\* A variant that keeps one u_global for the whole model: the solution of
\* a load case is stored on every load case.
SolveLoadCaseIn_SharedDisplacements(mdl, lcs, lc) ==
    LET r == SolveLoadCaseOf(mdl, lcs, lc)
    IN  IF r.error # None THEN r
        ELSE [r EXCEPT !.load_cases =
                 [c \in DOMAIN lcs |->
                     [r.load_cases[c] EXCEPT !.u_global = r.load_cases[lc].u_global]]]

\* A variant that adds the spring reaction to the load applied to the spring
\* equation instead of replacing the load.
SolveLoadCaseIn_SpringLoadKept(mdl, lcs, lc) ==
    LET r == SolveLoadCaseOf(mdl, lcs, lc)
    IN  IF r.error # None THEN r
        ELSE [r EXCEPT !.load_cases[lc].f_global.num =
                 [i \in DOMAIN @ |->
                     IF mdl.neq_free < i /\ i <= mdl.neq_free + mdl.neq_spring
                     THEN @[i] + r.load_cases[lc].f_global.den * lcs[lc].f_global.num[i]
                     ELSE @[i]]]

\* A variant that concatenates the fixed displacements before the free ones.
SolveLoadCaseIn_FixedFirst(mdl, lcs, lc) ==
    LET r == SolveLoadCaseOf(mdl, lcs, lc)
        m == mdl.neq_free + mdl.neq_spring
    IN  IF r.error # None THEN r
        ELSE [r EXCEPT !.load_cases[lc].u_global.num =
                 SubSeq(@, m + 1, Len(@)) \o SubSeq(@, 1, m)]

\* The effect of self.solve_load_case(load_case) on the solver's model.
SolveLoadCaseIn(mdl, lcs, lc) == SolveLoadCaseOf(mdl, lcs, lc)

(***************************************************************************)
(* Node: the calls that put loads and prescribed displacements on a load   *)
(* case.  d is the entry of the six-entry vectors that the call addresses  *)
(* (idx + 1 of the code).                                                  *)
(***************************************************************************)
PrescribedMessage == "ValueError: Prescribed displacement can be applied only to fixed DoF."

UnitVector(d, value) == [i \in 1..6 |-> IF i = d THEN value ELSE 0]

\* Node.add_nodal_load(load_components, load_case) of node v.
AddNodalLoad(v, load_components, lc_rec) ==
    [lc_rec EXCEPT !.nodal_loads = DictAddVector(@, v, load_components)]

\* A variant that creates the entry of the node before it checks the fixity.
AddPrescribedDisplacement_EntryFirst(ntab, v, d, prescribed_displacement, lc_rec) ==
    IF ntab[v].fixity[d] # FIXED_DOF
    THEN [load_case |-> [lc_rec EXCEPT !.prescribed_displacements =
                            DictAddVector(@, v, UnitVector(d, 0))],
          error |-> PrescribedMessage]
    ELSE [load_case |-> [lc_rec EXCEPT !.prescribed_displacements =
                            DictAddVector(@, v, UnitVector(d, prescribed_displacement))],
          error |-> None]

\* Node.add_prescribed_displacement(prescribed_displacement, degree_of_freedom,
\* load_case) of node v: the load case after the call and the exception
\* raised, None when the call returns.
AddPrescribedDisplacement(ntab, v, d, prescribed_displacement, lc_rec) ==
    IF ntab[v].fixity[d] # FIXED_DOF
    THEN [load_case |-> lc_rec, error |-> PrescribedMessage]
    ELSE [load_case |-> [lc_rec EXCEPT !.prescribed_displacements =
                            DictAddVector(@, v, UnitVector(d, prescribed_displacement))],
          error |-> None]

(***************************************************************************)
(* SpecCase: the beam line without member loads.  The caller puts nodal    *)
(* loads and prescribed displacements on the load cases, calls solve()     *)
(* once, and may go on calling the nodes afterwards.  The prelude of       *)
(* solve() is the one of SpecSolve; in the loop over the load cases the    *)
(* vectors are numeric.  The load cases are taken in either order,         *)
(* whatever the order of the nodes.                                        *)
(***************************************************************************)
MaxCalls == 2          \* add_nodal_load / add_prescribed_displacement calls explored

NoCall == [op |-> "None", node |-> 0, dof |-> 0, load_case |-> "None"]

InitCase ==
    /\ \E f1 \in {PIN, CLAMP}, f2 \in {AllFree, SPRING_Z}, f3 \in {AllFree, PIN} :
          nodes = << NewNode(0, f1, SpringsOf(f1)),
                     NewNode(SpanLength, f2, SpringsOf(f2)),
                     NewNode(2 * SpanLength, f3, SpringsOf(f3)) >>
    /\ \E h1 \in BeamConnection :
          members = [m \in {"M1", "M2"} |->
                        IF m = "M1" THEN NewMember(1, 2, SpanLength, <<h1, CONTINUOUS_END>>)
                        ELSE NewMember(2, 3, SpanLength, <<CONTINUOUS_END, CONTINUOUS_END>>)]
    /\ elements = <<>>
    /\ load_cases = [lc \in SolveCases |-> NewLoadCase]
    /\ model = NewModel
    /\ solver = IdleSolver
    /\ raised = None
    /\ calls = [solves |-> 0, returned |-> 0, outcome |-> "none", failed_step |-> "none",
                getter |-> NoGetter, solved |-> {},
                first |-> Snapshot(members, model, load_cases),
                vectors_before |-> Vectors(load_cases),
                fixity_before |-> [v \in DOMAIN nodes |-> nodes[v].fixity],
                adds |-> 0, last |-> NoCall,
                prescribed_before |-> load_cases["LC1"].prescribed_displacements,
                applied |-> Vectors(load_cases),
                before |-> [model |-> model, load_cases |-> load_cases]]

\* node.add_nodal_load(...) by the caller, outside solve().
CallAddNodalLoad ==
    /\ solver.pc = "idle"
    /\ calls.adds < MaxCalls
    /\ \E v \in 1..3, d \in Range(AnalysisDofs) :
          /\ load_cases' = [load_cases EXCEPT !["LC1"] = AddNodalLoad(v, UnitVector(d, 1), @)]
          /\ calls' = [calls EXCEPT !.adds = @ + 1,
                                    !.last = [op |-> "add_nodal_load", node |-> v, dof |-> d,
                                              load_case |-> "LC1"]]
    /\ raised' = None
    /\ UNCHANGED <<members, nodes, elements, model, solver>>

\* node.add_prescribed_displacement(...) by the caller, outside solve().
CallAddPrescribedDisplacement ==
    /\ solver.pc = "idle"
    /\ calls.adds < MaxCalls
    /\ \E v \in 1..3, d \in Range(AnalysisDofs), lc \in SolveCases :
          LET r == AddPrescribedDisplacement(nodes, v, d, 1, load_cases[lc])
          IN  /\ load_cases' = [load_cases EXCEPT ![lc] = r.load_case]
              /\ raised' = r.error
              /\ calls' = [calls EXCEPT
                     !.adds = @ + 1,
                     !.last = [op |-> "add_prescribed_displacement", node |-> v, dof |-> d,
                               load_case |-> lc],
                     !.prescribed_before = load_cases[lc].prescribed_displacements]
    /\ UNCHANGED <<members, nodes, elements, model, solver>>

\* LoadCombination(label, combination) (pre/cases.py): the label and the
\* factor of each load case.
NewLoadCombination(label, combination) == [label |-> label, combination |-> combination]

\* Model.add_load_combination(label, combination).
AddLoadCombination(mdl, label, combination) ==
    [mdl EXCEPT !.load_combinations = @ \cup {NewLoadCombination(label, combination)}]

\* model.add_load_combination("CO1", {LC1: c, LC2: 1}) by the caller, outside
\* solve(); the model gets one combination.
CallAddLoadCombination ==
    /\ solver.pc = "idle"
    /\ calls.adds < MaxCalls
    /\ model.load_combinations = {}
    /\ \E c \in {1, 2} :
          model' = AddLoadCombination(model, "CO1", [lc \in SolveCases |->
                                                       IF lc = "LC1" THEN c ELSE 1])
    /\ calls' = [calls EXCEPT !.adds = @ + 1,
                              !.last = [op |-> "add_load_combination", node |-> 0, dof |-> 0,
                                        load_case |-> "None"]]
    /\ raised' = None
    /\ UNCHANGED <<members, nodes, elements, load_cases, solver>>

\* solve() is called, once: the iteration orders of the sets of the model are
\* fixed for the call, the one of the load cases apart from the others.
CaseBegin ==
    /\ solver.pc = "idle"
    /\ calls.solves = 0
    /\ \E rev \in BOOLEAN, rev_cases \in BOOLEAN :
          solver' = [pc |-> "discretize_members", rev |-> rev, members |-> MemberOrder(rev),
                     queue |-> CaseOrder(rev_cases), trace |-> <<>>, cases |-> NoCases]
    /\ raised' = None
    /\ calls' = [calls EXCEPT !.outcome = "running", !.last = NoCall]
    /\ UNCHANGED <<members, nodes, elements, load_cases, model>>

\* Lines 138-150 of the loop body for the load case at the head of the queue.
CaseAssembleLoads ==
    /\ solver.pc = "load_cases"
    /\ solver.queue # <<>>
    /\ LET lc == Head(solver.queue)
       IN  /\ load_cases' =
                  [load_cases EXCEPT ![lc] =
                      AssembleNodalLoads(model, nodes,
                                         ApplyPrescribedDisplacements(model, nodes, @))]
           /\ calls' = [calls EXCEPT !.applied[lc] = Vectors(load_cases')[lc]]
    /\ CaseGoes("assemble_loads")
    /\ UNCHANGED <<members, nodes, elements, model>>

\* Line 156 of the loop body for the load case at the head of the queue.
CaseSolveLoadCase ==
    /\ solver.pc = "solve_load_case"
    /\ LET r == SolveLoadCaseIn(model, load_cases, Head(solver.queue))
       IN  /\ model' = r.model
           /\ load_cases' = r.load_cases
           /\ IF r.error = None
              THEN /\ CaseGoes("solve_load_case")
                   /\ calls' = [calls EXCEPT
                          !.before = [model |-> model, load_cases |-> load_cases]]
              ELSE /\ solver' = [solver EXCEPT !.pc = "idle",
                                               !.trace = Append(@, "solve_load_case")]
                   /\ raised' = r.error
                   /\ calls' = [calls EXCEPT
                          !.solves = @ + 1, !.outcome = "failed",
                          !.failed_step = "solve_load_case",
                          !.before = [model |-> model, load_cases |-> load_cases]]
    /\ UNCHANGED <<members, nodes, elements>>

NextCase ==
    \/ CallAddNodalLoad
    \/ CallAddPrescribedDisplacement
    \/ CallAddLoadCombination
    \/ CaseBegin
    \/ SolveDiscretizeMember
    \/ SolveAssignIds
    \/ SolveSetupFictitious
    \/ SolveInitGlobal
    \/ SolveSetupDofNumbers
    \/ SolveAssembleDofIndices
    \/ SolveAssembleGlobalDofs
    \/ SolveAssembleStiffness
    \/ SolveAssembleSpring
    \/ CaseAssembleLoads
    \/ CaseSolveLoadCase
    \/ SolveSaveResults
    \/ SolveMarkSolved
    \/ SolveReturn

SpecCase == InitCase /\ [][NextCase]_vars

\* solve_load_case has just ended, normally or not, for the load case at the
\* head of the queue.
JustSolved ==
    /\ LastStep = "solve_load_case"
    /\ calls.last = NoCall
    /\ calls.outcome \in {"running", "failed"}

\* The load cases as they are when only lc has had its loads assembled and
\* the others are as they were constructed.
AssembledAlone(lc) ==
    [c \in SolveCases |->
        IF c = lc
        THEN AssembleNodalLoads(model, nodes,
                                ApplyPrescribedDisplacements(model, nodes, load_cases[lc]))
        ELSE NewLoadCase]

CaseSolved(lc) == Len(solver.cases[lc]) >= 2

(***************************************************************************)
(* C13: for every solved load case K_global * u_global = f_global holds    *)
(* in every equation, free, spring and fixed.                              *)
(***************************************************************************)
C13_StiffnessTimesDisplacementIsForce ==
    \A lc \in SolveCases :
        CaseSolved(lc) =>
            MatVec(model.k_global, load_cases[lc].u_global.num) = load_cases[lc].f_global.num

(***************************************************************************)
(* C13, as the code has it: for every solved load case, with f_applied and *)
(* u_applied the vectors assembled before the solve, K_global * u_global   *)
(* equals f_applied in every free and every spring equation; in a free     *)
(* equation f_global is f_applied, in a spring equation f_global is the    *)
(* spring reaction -k_spring * u_global, and in a fixed equation u_global  *)
(* is u_applied and f_global is the reaction K_global * u_global minus     *)
(* f_applied.                                                              *)
(***************************************************************************)
C13_ForcesAreLoadsAndReactions ==
    \A lc \in SolveCases :
        CaseSolved(lc) =>
            LET u == load_cases[lc].u_global.num
                f == load_cases[lc].f_global.num
                D == load_cases[lc].u_global.den
                u_applied == calls.applied[lc][1].num
                f_applied == calls.applied[lc][2].num
                Ku == MatVec(model.k_global, u)
                nf == model.neq_free
                m == model.neq_free + model.neq_spring
            IN  /\ D > 0
                /\ load_cases[lc].f_global.den = D
                /\ \A r \in 1..neq(model) :
                       /\ r <= nf => (Ku[r] = D * f_applied[r] /\ f[r] = D * f_applied[r])
                       /\ (nf < r /\ r <= m) =>
                              /\ Ku[r] = D * f_applied[r]
                              /\ f[r] = 0 - model.spring_stiffness_global[r - nf] * u[r]
                       /\ r > m =>
                              /\ u[r] = D * u_applied[r]
                              /\ f[r] = Ku[r] - D * f_applied[r]

\* C13's case: a solved load case with a displaced spring, a load applied
\* to a fixed DOF and a prescribed displacement, where K_global * u_global
\* is not f_global.
C13_Witness ==
    \E lc \in SolveCases :
        /\ CaseSolved(lc)
        /\ model.neq_spring = 1
        /\ load_cases[lc].u_global.num[model.neq_free + 1] # 0
        /\ \E r \in (model.neq_free + 2)..neq(model) : calls.applied[lc][2].num[r] # 0
        /\ \E r \in (model.neq_free + 2)..neq(model) : calls.applied[lc][1].num[r] # 0
        /\ MatVec(model.k_global, load_cases[lc].u_global.num) # load_cases[lc].f_global.num

\* The first discretize of member M1 of SpecMember has ended normally.
Discretized == calls.discretize = 1 /\ raised = None

(***************************************************************************)
(* C14: after add_node calls and discretize, generated_nodes holds one     *)
(* node per distinct discontinuity position, in increasing position order, *)
(* all different; the node of a position where a user node exists (member  *)
(* end or add_node position) is a node of member.nodes whose own position  *)
(* is that discontinuity, and the node of any other position is a new node *)
(* at that position with all six DOFs free.                                *)
(***************************************************************************)
C14_OneNodePerDiscontinuity ==
    Discretized =>
        LET mem == members["M1"]
            gn == mem.generated_nodes
            xd == mem.x_discontinuities
        IN  /\ Len(gn) = Len(xd)
            /\ \A j \in DOMAIN gn, k \in DOMAIN gn : j < k => (gn[j] # gn[k] /\ xd[j] < xd[k])
            /\ \A k \in DOMAIN gn :
                   /\ nodes[gn[k]].X = nodes[1].X + xd[k]
                   /\ IF xd[k] \in Range(mem.x_user_defined_nodes)
                      THEN gn[k] \in Range(mem.nodes)
                      ELSE gn[k] \notin Range(mem.nodes) /\ nodes[gn[k]].fixity = AllFree

(***************************************************************************)
(* C15: after add_node calls at distinct interior positions, in any order, *)
(* member.nodes lists the start node first, the end node last and the      *)
(* added nodes between them in increasing position.                        *)
(***************************************************************************)
C15_MemberNodesSorted ==
    LET mem == members["M1"]
        xu == mem.x_user_defined_nodes
    IN  (/\ Len(xu) > 2
         /\ \A k \in 3..Len(xu) : 0 < xu[k] /\ xu[k] < mem.length
         /\ \A j \in 3..Len(xu), k \in 3..Len(xu) : j # k => xu[j] # xu[k]) =>
            /\ mem.nodes[1] = 1
            /\ mem.nodes[Len(mem.nodes)] = 2
            /\ \A k \in 1..(Len(mem.nodes) - 1) :
                   nodes[mem.nodes[k]].X < nodes[mem.nodes[k + 1]].X

(***************************************************************************)
(* C16: generate_elements creates one element between each consecutive     *)
(* pair of generated nodes; the first element has the member's start       *)
(* connectivity at its start, the last the member's end connectivity at    *)
(* its end, every other element end is continuous, and a single element    *)
(* has both connectivities of the member.                                  *)
(***************************************************************************)
C16_OneElementPerNodePair ==
    Discretized =>
        LET mem == members["M1"]
            gn == mem.generated_nodes
            ge == mem.generated_elements
        IN  /\ Len(ge) = Len(gn) - 1
            /\ \A k \in DOMAIN ge :
                   /\ elements[ge[k]].nodes = <<gn[k], gn[k + 1]>>
                   /\ elements[ge[k]].hinge_start =
                          (IF k = 1 THEN mem.hinge_start ELSE CONTINUOUS_END)
                   /\ elements[ge[k]].hinge_end =
                          (IF k = Len(ge) THEN mem.hinge_end ELSE CONTINUOUS_END)

\* C16's case: a member hinged at both ends has been cut into three elements.
C16_Witness ==
    /\ Discretized
    /\ members["M1"].hinge_start = HINGED_END
    /\ members["M1"].hinge_end = HINGED_END
    /\ Len(members["M1"].generated_elements) = 3

\* dict.get(key), 0 when the key has no entry.
Recorded(d, key) == IF key \in DOMAIN d THEN d[key] ELSE 0

\* The sum of the values of the loads of the list that satisfy P, from the
\* k-th load on.
RECURSIVE SumOfLoads(_, _, _)
SumOfLoads(loads, P(_), k) ==
    IF k > Len(loads) THEN 0
    ELSE (IF P(loads[k]) THEN loads[k].value ELSE 0) + SumOfLoads(loads, P, k + 1)

(***************************************************************************)
(* C17: after discretize, for each load case the nodal load recorded on a  *)
(* generated node is the sum of the point loads of that case whose         *)
(* position is the node's own position, so every point load is attached to *)
(* the one generated node at its position, none is dropped, and loads at    *)
(* the same position add up.                                               *)
(***************************************************************************)
C17_PointLoadsOnNodeAtPosition ==
    Discretized =>
        LET mem == members["M1"]
        IN  \A lc \in MemberCases, k \in DOMAIN mem.generated_nodes :
                LET v == mem.generated_nodes[k]
                    AtNode(pl) == pl.load_case = lc /\ nodes[1].X + pl.x = nodes[v].X
                IN  Recorded(load_cases[lc].nodal_loads, v) =
                        SumOfLoads(mem.point_loads, AtNode, 1)

\* The elements of the member that the span load is accumulated onto.
Receivers(mem, load) ==
    {k \in DOMAIN mem.generated_elements :
        /\ load.x_start <= elements[mem.generated_elements[k]].x_start
        /\ elements[mem.generated_elements[k]].x_end <= load.x_end}

\* The elements of the set tile the interval [x_start, x_end].
Tiles(mem, S, x_start, x_end) ==
    /\ \E k \in S : elements[mem.generated_elements[k]].x_start = x_start
    /\ \E k \in S : elements[mem.generated_elements[k]].x_end = x_end
    /\ \A k \in S : elements[mem.generated_elements[k]].x_end < x_end => k + 1 \in S

\* What C18 states for one list of span loads of the member and the records
\* of the elements that the list is accumulated into.
SpanLoadsOnCoveredElements(mem, loads, record(_)) ==
    /\ \A lc \in MemberCases, k \in DOMAIN mem.generated_elements :
           LET el == elements[mem.generated_elements[k]]
               Covers(load) ==
                   /\ load.load_case = lc
                   /\ load.x_start <= el.x_start
                   /\ el.x_end <= load.x_end
           IN  Recorded(record(lc), mem.generated_elements[k]) = SumOfLoads(loads, Covers, 1)
    /\ \A i \in DOMAIN loads :
           loads[i].x_start < loads[i].x_end =>
               Tiles(mem, Receivers(mem, loads[i]), loads[i].x_start, loads[i].x_end)

\* The records of the distributed and of the thermal loads of a load case.
DistributedRecord(lc) == load_cases[lc].element_distributed_loads
ThermalRecord(lc) == load_cases[lc].element_thermal_loads

(***************************************************************************)
(* C18: after discretize, the record of a generated element for a load     *)
(* case holds the sum of the distributed (thermal) loads of that case      *)
(* whose span [x_start, x_end] contains the element, so a load is          *)
(* accumulated onto the elements within its span and onto no other, and    *)
(* loads covering the same element add up; the elements that receive a     *)
(* load tile its span.                                                     *)
(***************************************************************************)
C18_SpanLoadsOnCoveredElements ==
    Discretized =>
        /\ SpanLoadsOnCoveredElements(members["M1"], members["M1"].distributed_loads,
                                      DistributedRecord)
        /\ SpanLoadsOnCoveredElements(members["M1"], members["M1"].thermal_loads,
                                      ThermalRecord)

\* C18's case: two distributed loads overlap on one element, which holds
\* their sum, another element holds one of them and a third holds none.
C18_Witness ==
    /\ Discretized
    /\ Len(members["M1"].distributed_loads) = 2
    /\ \E e \in Range(members["M1"].generated_elements) :
          Recorded(DistributedRecord("LC1"), e) = 2
    /\ \E e \in Range(members["M1"].generated_elements) :
          Recorded(DistributedRecord("LC1"), e) = 1
    /\ \E e \in Range(members["M1"].generated_elements) :
          Recorded(DistributedRecord("LC1"), e) = 0

\* The last call of the caller is add_prescribed_displacement and nothing has
\* run since.
JustPrescribed == calls.last.op = "add_prescribed_displacement"

\* The prescribed displacements of the load case of the last call.
PrescribedNow == load_cases[calls.last.load_case].prescribed_displacements

(***************************************************************************)
(* C19: add_prescribed_displacement on a DOF whose fixity is not 'fixed'   *)
(* (free, spring or fictitious-fixed) raises the ValueError and leaves the *)
(* prescribed displacements of the load case as they were, with no entry   *)
(* created for the node; on a fixed DOF it returns, the node has an entry  *)
(* whose component of that DOF is the one before plus the value, and       *)
(* every other component and every other node's entry is as before.        *)
(***************************************************************************)
C19_PrescribedOnlyOnFixedDof ==
    JustPrescribed =>
        LET v == calls.last.node
            d == calls.last.dof
            before == calls.prescribed_before
        IN  IF nodes[v].fixity[d] # FIXED_DOF
            THEN /\ raised = PrescribedMessage
                 /\ PrescribedNow = before
            ELSE /\ raised = None
                 /\ DOMAIN PrescribedNow = DOMAIN before \cup {v}
                 /\ \A w \in DOMAIN before : w # v => PrescribedNow[w] = before[w]
                 /\ \A i \in 1..6 :
                       PrescribedNow[v][i] =
                           (IF v \in DOMAIN before THEN before[v][i] ELSE 0)
                           + (IF i = d THEN 1 ELSE 0)

\* C19's case: after solve() has returned, a DOF that solve() left
\* fictitious-fixed is given a prescribed displacement; the call raises and
\* the load case keeps the one entry it had, of another node.
C19_Witness ==
    /\ JustPrescribed
    /\ calls.returned = 1
    /\ nodes[calls.last.node].fixity[calls.last.dof] = FICTFIXED_DOF
    /\ raised = PrescribedMessage
    /\ DOMAIN PrescribedNow # {}
    /\ calls.last.node \notin DOMAIN PrescribedNow

(***************************************************************************)
(* C20: after solve() has returned, every node and every member of the     *)
(* model holds results stored under each load combination of the model     *)
(* (the sums over the load cases of the factor times the load case's       *)
(* result), as it holds them under each load case.                         *)
(***************************************************************************)
C20_CombinationResultsStored ==
    (calls.returned = 1 /\ calls.outcome = "returned") =>
        \A co \in model.load_combinations :
            /\ \A v \in model.nodes : co.label \in nodes[v].results
            /\ \A m \in DOMAIN members : co.label \in members[m].results

(***************************************************************************)
(* C21: after solve() has returned, every member holds, under the envelope *)
(* "ENV1" over the load cases of the model, the arrays of the minimum and  *)
(* of the maximum over those load cases of the diagram values, as it holds *)
(* the diagrams under each load case.                                      *)
(***************************************************************************)
C21_EnvelopeResultsStored ==
    SolveEnded("returned") =>
        \A m \in DOMAIN members :
            SolveCases \subseteq members[m].results => "ENV1" \in members[m].results

(***************************************************************************)
(* SpecElement: one element of a member, with the material, the section    *)
(* and the beam theory of the member, the internal forces at its start     *)
(* for load case LC1 and, or not, a distributed load on it.  The caller    *)
(* reads one of its stiffness matrices, internal-force polynomials or      *)
(* lists of extrema.  Arrays of floats are kept exact, as integers over a  *)
(* common denominator: Numeric(num, den) is the array num / den.  Forces   *)
(* are in units of half the noise floor.                                   *)
(***************************************************************************)
MaxProperty == 2       \* elastic_modulus of SpecElement is in 1..MaxProperty

NUMERIC_GARBAGE == 2   \* 1e-12, in units of 0.5e-12

\* Element1D.get_axial_stiffness_coefficients of a variant that releases the
\* axial force of an element hinged at both ends.
GetAxialStiffnessCoefficients_Released(mem, el) ==
    LET k11 == IF el.hinge_start = HINGED_END /\ el.hinge_end = HINGED_END
               THEN 0 ELSE mem.material.elastic_modulus * mem.section.area_x
    IN  Numeric(<< <<k11, 0 - k11>>, <<0 - k11, k11>> >>, el.length)

\* Element1D.get_axial_stiffness_coefficients: k11 = E * A / L.
GetAxialStiffnessCoefficients(mem, el) ==
    LET k11 == mem.material.elastic_modulus * mem.section.area_x
    IN  Numeric(<< <<k11, 0 - k11>>, <<0 - k11, k11>> >>, el.length)

\* Element1D.get_torsion_stiffness_coefficients of a variant that keeps the
\* torsional stiffness unless both ends are hinged.
GetTorsionStiffnessCoefficients_OneHinge(mem, el) ==
    LET k11 == IF el.hinge_start = HINGED_END /\ el.hinge_end = HINGED_END
               THEN 0 ELSE mem.material.shear_modulus * mem.section.inertia_x
    IN  Numeric(<< <<k11, 0 - k11>>, <<0 - k11, k11>> >>, el.length)

\* Element1D.get_torsion_stiffness_coefficients: k11 = G * Jt / L when both
\* ends are continuous, np.zeros([2, 2]) otherwise.
GetTorsionStiffnessCoefficients(mem, el) ==
    IF el.hinge_start = CONTINUOUS_END /\ el.hinge_end = CONTINUOUS_END
    THEN LET k11 == mem.material.shear_modulus * mem.section.inertia_x
         IN  Numeric(<< <<k11, 0 - k11>>, <<0 - k11, k11>> >>, el.length)
    ELSE Numeric(<< <<0, 0>>, <<0, 0>> >>, 1)

\* Element1D.get_flexural_xy_stiffness_coefficients of a variant with the
\* carry-over term k24 = 4 * gamma * EI / muL.
GetFlexuralStiffnessCoefficients_CarryOver(mem, el, plane) ==
    LET L == el.length
        EI_ == mem.material.elastic_modulus * mem.section.inertia_z
        s == IF plane = "xy" THEN 1 ELSE 0 - 1
        k11 == 12 * EI_
        k12 == s * 6 * EI_ * L
        k22 == 4 * EI_ * L * L
        k24 == 4 * EI_ * L * L
    IN  Numeric(<< <<k11, k12, 0 - k11, k12>>,
                   <<k12, k22, 0 - k12, k24>>,
                   <<0 - k11, 0 - k12, k11, 0 - k12>>,
                   <<k12, k24, 0 - k12, k22>> >>, L * L * L)

\* Element1D.get_flexural_xy_stiffness_coefficients (plane "xy": inertia_z,
\* area_y) and get_flexural_xz_stiffness_coefficients (plane "xz": inertia_y,
\* area_z, the coupling terms of translation and rotation with the opposite
\* sign).  Omega is the fraction p / q, so lamb = (q + 3p) / q,
\* mu = (q + 12p) / q and gamma = (q - 6p) / q; the rigid-rigid matrix is
\* over the denominator (q + 12p) * L^3, the one-hinge matrices over
\* (q + 3p) * L^3.
GetFlexuralStiffnessCoefficients(mem, el, plane) ==
    LET L == el.length
        I == IF plane = "xy" THEN mem.section.inertia_z ELSE mem.section.inertia_y
        As == IF plane = "xy" THEN mem.section.area_y ELSE mem.section.area_z
        EI_ == mem.material.elastic_modulus * I
        p == IF mem.element_type = "navier" THEN 0 ELSE EI_
        q == IF mem.element_type = "navier" THEN 1
             ELSE mem.material.shear_modulus * As * L * L
        s == IF plane = "xy" THEN 1 ELSE 0 - 1
        Z4 == <<0, 0, 0, 0>>
    IN  IF el.hinge_start = CONTINUOUS_END /\ el.hinge_end = CONTINUOUS_END
        THEN LET k11 == 12 * EI_ * q
                 k12 == s * 6 * EI_ * q * L
                 k22 == 4 * (q + 3 * p) * EI_ * L * L
                 k24 == 2 * (q - 6 * p) * EI_ * L * L
             IN  Numeric(<< <<k11, k12, 0 - k11, k12>>,
                            <<k12, k22, 0 - k12, k24>>,
                            <<0 - k11, 0 - k12, k11, 0 - k12>>,
                            <<k12, k24, 0 - k12, k22>> >>, (q + 12 * p) * L * L * L)
        ELSE IF el.hinge_start = HINGED_END /\ el.hinge_end = CONTINUOUS_END
        THEN LET k11 == 3 * EI_ * q
                 k14 == s * 3 * EI_ * q * L
                 k44 == 3 * EI_ * q * L * L
             IN  Numeric(<< <<k11, 0, 0 - k11, k14>>,
                            Z4,
                            <<0 - k11, 0, k11, 0 - k14>>,
                            <<k14, 0, 0 - k14, k44>> >>, (q + 3 * p) * L * L * L)
        ELSE IF el.hinge_start = CONTINUOUS_END /\ el.hinge_end = HINGED_END
        THEN LET k11 == 3 * EI_ * q
                 k12 == s * 3 * EI_ * q * L
                 k22 == 3 * EI_ * q * L * L
             IN  Numeric(<< <<k11, k12, 0 - k11, 0>>,
                            <<k12, k22, 0 - k12, 0>>,
                            <<0 - k11, 0 - k12, k11, 0>>,
                            Z4 >>, (q + 3 * p) * L * L * L)
        ELSE Numeric(<<Z4, Z4, Z4, Z4>>, 1)

\* The start value of an internal force with the noise removed
\* (if abs(v) < NUMERIC_GARBAGE: v = 0.0).
Denoised(v) == IF Abs(v) < NUMERIC_GARBAGE THEN 0 ELSE v

\* Element1D.get_axial_equation_coefficients (kind "axial") and
\* get_shear_force_xy / xz_equation_coefficients (kinds "xy", "xz") for the
\* load case whose distributed loads are given: (a, b, c) of a x^2 + b x + c.
\* get_load_equation_coefficients gives a = (f_end - f_start) / L and
\* b = f_start, get_internal_force_coefficients a / 2, b and the start value.
GetForceEquationCoefficients(el, e, distributed_loads, kind) ==
    LET L == el.length
        start == IF kind = "axial" THEN Denoised(0 - el.axial_force[1])
                 ELSE IF kind = "xy" THEN Denoised(el.shear_force_y[1])
                 ELSE Denoised(el.shear_force_z[1])
        i == IF kind = "axial" THEN 1 ELSE IF kind = "xy" THEN 2 ELSE 3
        sign == IF kind = "axial" THEN 0 - 1 ELSE 1
    IN  IF e \notin DOMAIN distributed_loads THEN Numeric(<<0, 0, start>>, 1)
        ELSE LET f_start == distributed_loads[e].components_local[i]
                 f_end == distributed_loads[e].components_local[i + 3]
             IN  Numeric(<<sign * (f_end - f_start), sign * f_start * 2 * L, start * 2 * L>>,
                         2 * L)

\* Element1D.get_bending_moment_xy_equation_coefficients of a variant whose
\* get_internal_moment_coefficients divides a by 2 and not by 6.
GetBendingMomentEquationCoefficients_HalfCube(el, e, distributed_loads, plane) ==
    LET L == el.length
        moment_start == IF plane = "xy" THEN Denoised(0 - el.bending_moment_z[1])
                        ELSE Denoised(el.bending_moment_y[1])
        shear_start == IF plane = "xy" THEN Denoised(el.shear_force_y[1])
                       ELSE Denoised(el.shear_force_z[1])
        i == IF plane = "xy" THEN 2 ELSE 3
    IN  IF e \notin DOMAIN distributed_loads
        THEN Numeric(<<0, 0, shear_start, moment_start>>, 1)
        ELSE LET f_start == distributed_loads[e].components_local[i]
                 f_end == distributed_loads[e].components_local[i + 3]
             IN  Numeric(<<f_end - f_start, f_start * L,
                           shear_start * 2 * L, moment_start * 2 * L>>, 2 * L)

\* Element1D.get_bending_moment_xy / xz_equation_coefficients: (a, b, c, d)
\* of a x^3 + b x^2 + c x + d.  get_load_equation_coefficients gives
\* a = (f_end - f_start) / L and b = f_start, get_internal_moment_coefficients
\* a / 6, b / 2, the start shear and the start moment.
GetBendingMomentEquationCoefficients(el, e, distributed_loads, plane) ==
    LET L == el.length
        moment_start == IF plane = "xy" THEN Denoised(0 - el.bending_moment_z[1])
                        ELSE Denoised(el.bending_moment_y[1])
        shear_start == IF plane = "xy" THEN Denoised(el.shear_force_y[1])
                       ELSE Denoised(el.shear_force_z[1])
        i == IF plane = "xy" THEN 2 ELSE 3
    IN  IF e \notin DOMAIN distributed_loads
        THEN Numeric(<<0, 0, shear_start, moment_start>>, 1)
        ELSE LET f_start == distributed_loads[e].components_local[i]
                 f_end == distributed_loads[e].components_local[i + 3]
             IN  Numeric(<<f_end - f_start, f_start * 3 * L,
                           shear_start * 6 * L, moment_start * 6 * L>>, 6 * L)

\* The polynomials whose roots the model reads: the roots are rational or
\* complex.
RationalRoots(c) ==
    LET discriminant == c[2] * c[2] - 4 * c[1] * c[3]
    IN  (Len(c) = 3 /\ c[3] # 0 /\ discriminant > 0) =>
            \E r \in 0..discriminant : r * r = discriminant

\* np.polynomial.polynomial.polyroots(c) for integer coefficients, lowest
\* degree first, of a polynomial of degree two at most whose roots are
\* rational or complex: the real roots, as integers over a denominator.
\* Trailing zeros are trimmed; a constant has no root.
PolyRoots(c) ==
    LET deg == IF \E k \in DOMAIN c : c[k] # 0
               THEN (CHOOSE k \in DOMAIN c : c[k] # 0 /\ \A j \in DOMAIN c : j > k => c[j] = 0) - 1
               ELSE 0
        discriminant == c[2] * c[2] - 4 * c[1] * c[3]
    IN  IF deg = 0 THEN [num |-> {}, den |-> 1]
        ELSE IF deg = 1
        THEN [num |-> {IF c[2] > 0 THEN 0 - c[1] ELSE c[1]}, den |-> Abs(c[2])]
        ELSE IF discriminant < 0 THEN [num |-> {}, den |-> 1]
        ELSE LET r == CHOOSE r \in 0..discriminant : r * r = discriminant
                 sg == IF c[3] > 0 THEN 1 ELSE 0 - 1
             IN  [num |-> {sg * (0 - c[2] - r), sg * (0 - c[2] + r)}, den |-> 2 * Abs(c[3])]

\* get_suspicious_points of a variant that keeps the roots beyond the end of
\* the element.
GetSuspiciousPoints_Unfiltered(coefficients, length) ==
    LET x_max == PolyRoots(coefficients)
    IN  Numeric(SortedSeq({x \in x_max.num : 0 <= x} \cup {0, length * x_max.den}), x_max.den)

\* get_suspicious_points(coefficients, length): the real roots within
\* [0, length], with 0 and length, sorted and without duplicates.
GetSuspiciousPoints(coefficients, length) ==
    LET x_max == PolyRoots(coefficients)
    IN  Numeric(SortedSeq({x \in x_max.num : 0 <= x /\ x <= length * x_max.den}
                          \cup {0, length * x_max.den}), x_max.den)

\* The coefficients of the internal force of the kind, highest degree first.
EquationCoefficients(el, e, distributed_loads, kind) ==
    IF kind \in {"axial", "shear_xy", "shear_xz"}
    THEN GetForceEquationCoefficients(el, e, distributed_loads,
                                      IF kind = "axial" THEN kind
                                      ELSE IF kind = "shear_xy" THEN "xy" ELSE "xz")
    ELSE GetBendingMomentEquationCoefficients(el, e, distributed_loads,
                                              IF kind = "moment_xy" THEN "xy" ELSE "xz")

\* The coefficients that the get_max_internal_* methods hand to
\* get_suspicious_points: [b, 2 * a] of a quadratic, [c, 2 * b, 3 * a] of a
\* cubic.
DerivativeCoefficients(co) ==
    IF Len(co.num) = 3 THEN <<co.num[2], 2 * co.num[1]>>
    ELSE <<co.num[3], 2 * co.num[2], 3 * co.num[1]>>

\* get_internal_*(load_case, x) at the position n / d: a x^2 + b x + c or
\* a x^3 + b x^2 + c x + d, as an integer over a denominator.
InternalAt(co, n, d) ==
    IF Len(co.num) = 3
    THEN <<co.num[1] * n * n + co.num[2] * n * d + co.num[3] * d * d, co.den * d * d>>
    ELSE <<co.num[1] * n * n * n + co.num[2] * n * n * d + co.num[3] * n * d * d
              + co.num[4] * d * d * d,
           co.den * d * d * d>>

\* Element1D.get_max_internal_axial_forces, ..._shear_forces_xy / xz and
\* ..._bending_moments_xy / xz: the rows [x_start + x, value at x] of the
\* suspicious points x.
GetMaxInternal(el, e, distributed_loads, kind) ==
    LET co == EquationCoefficients(el, e, distributed_loads, kind)
        x_max == GetSuspiciousPoints(DerivativeCoefficients(co), el.length)
    IN  [k \in DOMAIN x_max.num |->
            [x |-> <<el.x_start * x_max.den + x_max.num[k], x_max.den>>,
             value |-> InternalAt(co, x_max.num[k], x_max.den)]]

InitElement ==
    /\ \E element_type \in {"navier", "timoshenko"}, E \in 1..MaxProperty,
          h1 \in BeamConnection, h2 \in BeamConnection :
          members = [m \in {"M1"} |->
                        NewMember(1, 2, MemberLength, <<h1, h2>>) @@
                        [element_type |-> element_type,
                         material |-> [elastic_modulus |-> E, shear_modulus |-> 1],
                         section |-> [area_x |-> 3, area_y |-> 1, area_z |-> 2,
                                      inertia_x |-> 3, inertia_y |-> 1, inertia_z |-> 2]]]
    /\ \E x_1 \in 0..(MemberLength - 1), V \in {0 - 4, 0 - 1, 0, 2}, M \in {0 - 1, 2} :
          \E x_2 \in (x_1 + 1)..MemberLength :
              elements = << NewElement("M1", 1, 2, x_1, x_2,
                                       <<members["M1"].hinge_start, members["M1"].hinge_end>>) @@
                            [axial_force |-> <<V, 0 - V>>,
                             shear_force_y |-> <<V, 0>>, bending_moment_z |-> <<M, 0>>,
                             shear_force_z |-> <<M, 0>>, bending_moment_y |-> <<V, 0>>] >>
    /\ nodes = << NewNode(0, AllFree, NoSprings), NewNode(MemberLength, AllFree, NoSprings) >>
    /\ \E loaded \in BOOLEAN, f_start \in {0 - 3, 0 - 2, 1}, f_end \in {1, 3} :
          load_cases = [lc \in {"LC1"} |->
                           IF loaded
                           THEN [NewLoadCase EXCEPT !.element_distributed_loads =
                                    1 :> [components_local |->
                                             <<f_start, f_start, f_end, f_end, f_end, f_start>>]]
                           ELSE NewLoadCase]
    /\ model = NewModel
    /\ solver = NoSolver
    /\ raised = None
    /\ calls = [op |-> "None", kind |-> "None", result |-> NoVector]

\* The caller reads one of the stiffness matrices of the element.
CallStiffnessGetter ==
    /\ calls.op = "None"
    /\ \E op \in {"get_axial_stiffness_coefficients", "get_torsion_stiffness_coefficients",
                  "get_flexural_xy_stiffness_coefficients",
                  "get_flexural_xz_stiffness_coefficients"} :
          calls' = [op |-> op, kind |-> "None",
                    result |->
                        IF op = "get_axial_stiffness_coefficients"
                        THEN GetAxialStiffnessCoefficients(members["M1"], elements[1])
                        ELSE IF op = "get_torsion_stiffness_coefficients"
                        THEN GetTorsionStiffnessCoefficients(members["M1"], elements[1])
                        ELSE IF op = "get_flexural_xy_stiffness_coefficients"
                        THEN GetFlexuralStiffnessCoefficients(members["M1"], elements[1], "xy")
                        ELSE GetFlexuralStiffnessCoefficients(members["M1"], elements[1], "xz")]
    /\ UNCHANGED <<members, nodes, elements, load_cases, model, solver, raised>>

\* The caller reads the coefficients of one internal-force polynomial.
CallEquationCoefficients ==
    /\ calls.op = "None"
    /\ \E kind \in {"axial", "shear_xy", "shear_xz", "moment_xy", "moment_xz"} :
          calls' = [op |-> "equation_coefficients", kind |-> kind,
                    result |-> EquationCoefficients(elements[1], 1,
                                   load_cases["LC1"].element_distributed_loads, kind)]
    /\ UNCHANGED <<members, nodes, elements, load_cases, model, solver, raised>>

\* The caller reads the extrema of one internal force; the derivative has
\* rational or complex roots.
CallMaxInternal ==
    /\ calls.op = "None"
    /\ \E kind \in {"axial", "shear_xy", "shear_xz", "moment_xy", "moment_xz"} :
          /\ RationalRoots(DerivativeCoefficients(
                 EquationCoefficients(elements[1], 1,
                     load_cases["LC1"].element_distributed_loads, kind)))
          /\ calls' = [op |-> "get_max_internal", kind |-> kind,
                       result |-> GetMaxInternal(elements[1], 1,
                                      load_cases["LC1"].element_distributed_loads, kind)]
    /\ UNCHANGED <<members, nodes, elements, load_cases, model, solver, raised>>

NextElement == CallStiffnessGetter \/ CallEquationCoefficients \/ CallMaxInternal

SpecElement == InitElement /\ [][NextElement]_vars

\* The element of SpecElement, its member and the distributed loads of LC1.
TheElement == elements[1]
TheMember == members["M1"]
TheLoads == load_cases["LC1"].element_distributed_loads

BothHinged == TheElement.hinge_start = HINGED_END /\ TheElement.hinge_end = HINGED_END
BothRigid == TheElement.hinge_start = CONTINUOUS_END /\ TheElement.hinge_end = CONTINUOUS_END

\* The array num / den is k / L times [[1, -1], [-1, 1]].
IsBarMatrix(m, k, L) ==
    /\ DOMAIN m.num = 1..2
    /\ \A i \in 1..2 :
          /\ DOMAIN m.num[i] = 1..2
          /\ \A j \in 1..2 : m.num[i][j] * L = (IF i = j THEN k ELSE 0 - k) * m.den

\* Every entry of the n x n array is zero.
IsZeroMatrix(m, n) ==
    /\ DOMAIN m.num = 1..n
    /\ \A i \in 1..n : DOMAIN m.num[i] = 1..n /\ \A j \in 1..n : m.num[i][j] = 0

(***************************************************************************)
(* C23: for an element hinged at both ends the flexural stiffness matrix   *)
(* of either bending plane and the torsional stiffness matrix are the zero *)
(* matrix, for both beam theories; the axial stiffness matrix is           *)
(* EA / L * [[1, -1], [-1, 1]] whatever the end connectivities are.        *)
(***************************************************************************)
C23_HingedHingedCarriesAxialOnly ==
    /\ (BothHinged /\ calls.op \in {"get_flexural_xy_stiffness_coefficients",
                                    "get_flexural_xz_stiffness_coefficients"})
           => IsZeroMatrix(calls.result, 4)
    /\ (BothHinged /\ calls.op = "get_torsion_stiffness_coefficients")
           => IsZeroMatrix(calls.result, 2)
    /\ calls.op = "get_axial_stiffness_coefficients"
           => IsBarMatrix(calls.result,
                          TheMember.material.elastic_modulus * TheMember.section.area_x,
                          TheElement.length)

\* C23's case: the xz flexural stiffness of a Timoshenko element hinged at
\* both ends has been read, and it is the zero matrix.
C23_Witness ==
    /\ BothHinged
    /\ TheMember.element_type = "timoshenko"
    /\ calls.op = "get_flexural_xz_stiffness_coefficients"
    /\ IsZeroMatrix(calls.result, 4)

(***************************************************************************)
(* C24: the torsional stiffness matrix is GJ / L * [[1, -1], [-1, 1]] if   *)
(* and only if both ends of the element are rigid; with a hinge at the     *)
(* start, at the end or at both it is the 2 x 2 zero matrix.               *)
(***************************************************************************)
C24_TorsionOnlyBetweenRigidEnds ==
    calls.op = "get_torsion_stiffness_coefficients" =>
        LET GJ == TheMember.material.shear_modulus * TheMember.section.inertia_x
        IN  /\ BothRigid <=> IsBarMatrix(calls.result, GJ, TheElement.length)
            /\ ~BothRigid => IsZeroMatrix(calls.result, 2)

\* C24's case: the torsional stiffness of an element with one hinge, at its
\* start, has been read.
C24_Witness ==
    /\ calls.op = "get_torsion_stiffness_coefficients"
    /\ TheElement.hinge_start = HINGED_END
    /\ TheElement.hinge_end = CONTINUOUS_END
    /\ IsZeroMatrix(calls.result, 2)

\* The classical Euler-Bernoulli matrix, without its factor EI / L^3; s is
\* the sign of the terms that couple translation and rotation.
EulerBernoulli(L, s) ==
    << <<12, s * 6 * L, 0 - 12, s * 6 * L>>,
       <<s * 6 * L, 4 * L * L, 0 - s * 6 * L, 2 * L * L>>,
       <<0 - 12, 0 - s * 6 * L, 12, 0 - s * 6 * L>>,
       <<s * 6 * L, 2 * L * L, 0 - s * 6 * L, 4 * L * L>> >>

(***************************************************************************)
(* C25: for an Euler-Bernoulli element with both ends rigid the flexural   *)
(* stiffness matrix of the xy plane is EI_z / L^3 times the classical      *)
(* matrix [12, 6L, -12, 6L; 6L, 4L^2, -6L, 2L^2; -12, -6L, 12, -6L;        *)
(* 6L, 2L^2, -6L, 4L^2], and the one of the xz plane is EI_y / L^3 times   *)
(* the same matrix with the signs of the 6L terms flipped.                 *)
(***************************************************************************)
C25_RigidNavierIsEulerBernoulli ==
    (/\ BothRigid
     /\ TheMember.element_type = "navier"
     /\ calls.op \in {"get_flexural_xy_stiffness_coefficients",
                      "get_flexural_xz_stiffness_coefficients"}) =>
        LET xy == calls.op = "get_flexural_xy_stiffness_coefficients"
            L == TheElement.length
            EI_ == TheMember.material.elastic_modulus *
                       (IF xy THEN TheMember.section.inertia_z ELSE TheMember.section.inertia_y)
            K == EulerBernoulli(L, IF xy THEN 1 ELSE 0 - 1)
        IN  \A i \in 1..4, j \in 1..4 :
                calls.result.num[i][j] * L * L * L = EI_ * K[i][j] * calls.result.den

\* C25's case: the xz matrix of a rigid Euler-Bernoulli element of length 2
\* has been read.
C25_Witness ==
    /\ BothRigid
    /\ TheMember.element_type = "navier"
    /\ TheElement.length = 2
    /\ calls.op = "get_flexural_xz_stiffness_coefficients"
    /\ calls.result.num[1][2] < 0

(***************************************************************************)
(* C27: in each bending plane the derivative of the bending-moment cubic   *)
(* a x^3 + b x^2 + c x + d is the shear-force quadratic of the same plane: *)
(* 3a, 2b and c of the cubic are a, b and c of the quadratic, with and     *)
(* without a distributed load and when the start shear is below the noise  *)
(* floor.                                                                  *)
(***************************************************************************)
C27_MomentDerivativeIsShear ==
    (calls.op = "equation_coefficients" /\ calls.kind \in {"moment_xy", "moment_xz"}) =>
        LET m == calls.result
            v == GetForceEquationCoefficients(TheElement, 1, TheLoads,
                                              IF calls.kind = "moment_xy" THEN "xy" ELSE "xz")
        IN  /\ 3 * m.num[1] * v.den = v.num[1] * m.den
            /\ 2 * m.num[2] * v.den = v.num[2] * m.den
            /\ m.num[3] * v.den = v.num[3] * m.den

\* C27's case: the moment cubic of the xy plane of an element with a linearly
\* varying load has been read; its start shear is noise and its start
\* moment is not.
C27_Witness ==
    /\ calls.op = "equation_coefficients"
    /\ calls.kind = "moment_xy"
    /\ 1 \in DOMAIN TheLoads
    /\ calls.result.num[1] # 0
    /\ TheElement.shear_force_y[1] = 0 - 1
    /\ calls.result.num[3] = 0
    /\ calls.result.num[4] # 0

\* The derivative of the internal force of the kind, lowest degree first,
\* up to the common denominator of the coefficients: b + 2a x of the
\* quadratic a x^2 + b x + c, c + 2b x + 3a x^2 of the cubic.
DerivativeOf(co) ==
    IF Len(co.num) = 3 THEN <<co.num[2], 2 * co.num[1], 0>>
    ELSE <<co.num[3], 2 * co.num[2], 3 * co.num[1]>>

\* The rational n / d is a root of c[1] + c[2] x + c[3] x^2.
IsRootOf(c, n, d) == c[1] * d * d + c[2] * n * d + c[3] * n * n = 0

\* A denominator that every rational root of c[1] + c[2] x + c[3] x^2 can be
\* written over: the leading coefficient.
RootDenominator(c) == IF c[3] # 0 THEN Abs(c[3]) ELSE Abs(c[2])

(***************************************************************************)
(* C22: the rows of get_max_internal_* are at strictly increasing          *)
(* positions that lie within the element, the first at its start and the   *)
(* last at its end, and among them is every real root within [0, length]   *)
(* of the derivative of the polynomial, when the derivative is not the     *)
(* zero polynomial; each row pairs x_start + position with the value of    *)
(* the polynomial at the position.                                         *)
(***************************************************************************)
C22_ExtremaAtEndsAndDerivativeRoots ==
    calls.op = "get_max_internal" =>
        LET rows == calls.result
            co == EquationCoefficients(TheElement, 1, TheLoads, calls.kind)
            dv == DerivativeOf(co)
            L == TheElement.length
            den == rows[1].x[2]
            pos(k) == rows[k].x[1] - TheElement.x_start * den
        IN  /\ Len(rows) >= 2
            /\ den > 0
            /\ \A k \in DOMAIN rows : rows[k].x[2] = den /\ 0 <= pos(k) /\ pos(k) <= L * den
            /\ \A k \in 1..(Len(rows) - 1) : pos(k) < pos(k + 1)
            /\ pos(1) = 0
            /\ pos(Len(rows)) = L * den
            /\ dv # <<0, 0, 0>> =>
                   \A n \in 0..(L * RootDenominator(dv)) :
                       IsRootOf(dv, n, RootDenominator(dv)) =>
                           \E k \in DOMAIN rows : pos(k) * RootDenominator(dv) = n * den
            /\ \A k \in DOMAIN rows : rows[k].value = InternalAt(co, pos(k), den)

\* C22's case: the derivative of a bending moment has two roots inside the
\* element, so the extrema have four rows.
C22_Witness ==
    /\ calls.op = "get_max_internal"
    /\ calls.kind \in {"moment_xy", "moment_xz"}
    /\ Len(calls.result) = 4

\* solve_load_case has just returned for the load case at the head of the
\* queue, without an error.
JustSolvedCase == JustSolved /\ calls.outcome = "running"

(***************************************************************************)
(* C26: after solve_load_case, f_global holds at each fixed equation the   *)
(* reaction K_cf * u_f + K_cc * u_c minus the nodal load that the equation *)
(* held before the call, at the i-th spring equation minus                 *)
(* spring_stiffness_global[i] times the displacement solved for it,        *)
(* whatever load the equation held, and at each free equation the load it  *)
(* held before the call.                                                   *)
(***************************************************************************)
C26_ForceVectorAfterSolve ==
    JustSolvedCase =>
        LET lc == Head(solver.queue)
            nf == model.neq_free
            m == model.neq_free + model.neq_spring
            n == neq(model)
            D == load_cases[lc].f_global.den
            f == load_cases[lc].f_global.num
            u == load_cases[lc].u_global.num
            f_before == calls.before.load_cases[lc].f_global.num
            k_cf == Block(model.k_global, m + 1, n, 1, m)
            k_cc == Block(model.k_global, m + 1, n, m + 1, n)
        IN  /\ load_cases[lc].u_global.den = D
            /\ \A i \in 1..(n - m) :
                   f[m + i] = Dot(k_cf[i], SubSeq(u, 1, m), 1)
                                  + Dot(k_cc[i], SubSeq(u, m + 1, n), 1) - D * f_before[m + i]
            /\ \A i \in 1..model.neq_spring :
                   f[nf + i] = 0 - model.spring_stiffness_global[i] * u[nf + i]
            /\ \A i \in 1..nf : f[i] = D * f_before[i]

\* C26's case: the load case just solved has a load on the spring equation,
\* which the spring reaction has replaced, and a load on a fixed equation.
C26_Witness ==
    /\ JustSolvedCase
    /\ model.neq_spring = 1
    /\ LET lc == Head(solver.queue)
           f_before == calls.before.load_cases[lc].f_global.num
           m == model.neq_free + model.neq_spring
       IN  /\ f_before[m] # 0
           /\ load_cases[lc].f_global.num[m] # load_cases[lc].f_global.den * f_before[m]
           /\ \E r \in (m + 1)..neq(model) : f_before[r] # 0

\* The fixity of the node DOF that equation r (from 1) belongs to.
FixityOfEquation(r) ==
    LET c == CellOfEquation(model, r - 1)
    IN  nodes[NodeWithId(model, nodes, c[1] - 1)].fixity[AnalysisDofs[c[2]]]

(***************************************************************************)
(* C28: solve_load_case leaves the displacements of the fixed equations as *)
(* they were before the call, the prescribed displacement or zero; after   *)
(* it u_global and f_global have neq entries, in the order of the          *)
(* equations: those of the free DOFs, then those of the spring DOFs, then  *)
(* those of the fixed DOFs.                                                *)
(***************************************************************************)
C28_FixedDisplacementsKept ==
    JustSolvedCase =>
        LET lc == Head(solver.queue)
            nf == model.neq_free
            m == model.neq_free + model.neq_spring
            D == load_cases[lc].u_global.den
            u == load_cases[lc].u_global.num
            lc_rec == calls.before.load_cases[lc]
        IN  /\ DOMAIN u = 1..neq(model)
            /\ DOMAIN load_cases[lc].f_global.num = 1..neq(model)
            /\ \A r \in 1..neq(model) :
                   /\ r <= nf <=> FixityOfEquation(r) = FREE_DOF
                   /\ (nf < r /\ r <= m) <=> FixityOfEquation(r) = SPRING_DOF
                   /\ r > m =>
                          /\ u[r] = D * lc_rec.u_global.num[r]
                          /\ LET c == CellOfEquation(model, r - 1)
                                 v == NodeWithId(model, nodes, c[1] - 1)
                                 d == AnalysisDofs[c[2]]
                             IN  u[r] = IF v \in DOMAIN lc_rec.prescribed_displacements
                                           /\ nodes[v].fixity[d] = FIXED_DOF
                                        THEN D * lc_rec.prescribed_displacements[v][d] ELSE 0

\* C28's case: the load case just solved has a prescribed displacement at one
\* fixed equation and none at another, and free displacements that are not
\* zero.
C28_Witness ==
    /\ JustSolvedCase
    /\ LET lc == Head(solver.queue)
           m == model.neq_free + model.neq_spring
           u == load_cases[lc].u_global.num
       IN  /\ \E r \in (m + 1)..neq(model) : u[r] # 0
           /\ \E r \in (m + 1)..neq(model) : u[r] = 0
           /\ \E r \in 1..m : u[r] # 0


(***************************************************************************)
(* C29: after Model.discretize_members every node of model.nodes has a     *)
(* distinct id in 0..number_of_nodes-1, every element of model.elements a  *)
(* distinct id in 0..number_of_elements-1, the node shared by the two      *)
(* members is one node of model.nodes, and both end nodes of every element *)
(* of model.elements are in model.nodes.                                   *)
(***************************************************************************)
\* discretize_members of the running solve() has just ended normally.
MembersDiscretized ==
    /\ solver.pc # "idle"
    /\ LastStep = "discretize_members"
    /\ raised = None

\* The ids of the objects S of the table are distinct and fill 0..|S|-1.
IdsNumber(tab, S) ==
    /\ \A v \in S : tab[v].id \in 0..(Cardinality(S) - 1)
    /\ \A v, w \in S : tab[v].id = tab[w].id => v = w

\* The last node of member M1 and the first node of member M2.
SharedNode == members["M1"].nodes[2]

C29_IdsAfterDiscretizeMembers ==
    MembersDiscretized =>
        /\ IdsNumber(nodes, model.nodes)
        /\ IdsNumber(elements, model.elements)
        /\ SharedNode = members["M2"].nodes[1]
        /\ SharedNode \in model.nodes
        /\ \A m \in DOMAIN members :
              \A k \in 1..Len(members[m].generated_nodes) :
                  nodes[members[m].generated_nodes[k]].X = nodes[SharedNode].X
                      => members[m].generated_nodes[k] = SharedNode
        /\ \A e \in model.elements :
              elements[e].nodes[1] \in model.nodes /\ elements[e].nodes[2] \in model.nodes

\* Both members were divided by a load and the ids have been assigned.
C29_Witness ==
    /\ MembersDiscretized
    /\ Cardinality(model.nodes) = 5
    /\ Cardinality(model.elements) = 4
    /\ \E e, f \in model.elements :
          /\ elements[e].member = "M1" /\ elements[f].member = "M2"
          /\ elements[e].nodes[2] = SharedNode /\ elements[f].nodes[1] = SharedNode


(***************************************************************************)
(* SpecFict: one element between two nodes of a model; the caller calls    *)
(* Model.setup_fictitious_rotation_constraints with either flag, a few     *)
(* times.  The first node is constructed with any rotational fixities that *)
(* Node.validate_fixity accepts.                                           *)
(***************************************************************************)
InitFict ==
    /\ \E r \in [4..6 -> SupportFixity], f2 \in {AllFree, PIN} :
          nodes = << [NewNode(0, [i \in 1..6 |-> IF i \in 4..6 THEN r[i] ELSE FIXED_DOF],
                              NoSprings) EXCEPT !.id = 0],
                     [NewNode(MemberLength, f2, NoSprings) EXCEPT !.id = 1] >>
    /\ \E h1 \in BeamConnection, h2 \in BeamConnection :
          /\ members = [m \in {"M1"} |-> NewMember(1, 2, MemberLength, <<h1, h2>>)]
          /\ elements = << [NewElement("M1", 1, 2, 0, MemberLength, <<h1, h2>>)
                               EXCEPT !.id = 0] >>
    /\ load_cases = <<>>
    /\ model = [NewModel EXCEPT !.nodes = {1, 2}, !.elements = {1}]
    /\ solver = NoSolver
    /\ raised = None
    /\ calls = [flags |-> <<>>, before |-> <<>>]

\* model.setup_fictitious_rotation_constraints(fict), called by the caller.
CallSetupFictitious ==
    /\ Len(calls.flags) < MaxCalls
    /\ \E fict \in BOOLEAN :
          /\ nodes' = SetupFictitiousRotationConstraints(fict, model, nodes, elements)
          /\ calls' = [flags |-> Append(calls.flags, fict),
                       before |-> Append(calls.before,
                                         [v \in DOMAIN nodes |-> nodes[v].fixity])]
    /\ UNCHANGED <<members, elements, load_cases, model, solver, raised>>

NextFict == CallSetupFictitious

SpecFict == InitFict /\ [][NextFict]_vars

\* The last two calls were setup_fictitious_rotation_constraints(True) and
\* then setup_fictitious_rotation_constraints(False).
SetThenRemoved ==
    /\ Len(calls.flags) >= 2
    /\ calls.flags[Len(calls.flags) - 1]
    /\ ~calls.flags[Len(calls.flags)]

\* The fixity vectors of the nodes before the last two calls.
FixityBeforeTheTwoCalls == calls.before[Len(calls.before) - 1]

(***************************************************************************)
(* C30: setup_fictitious_rotation_constraints(True) followed by            *)
(* setup_fictitious_rotation_constraints(False) leaves every node with the *)
(* six-entry fixity vector it had before the two calls, whatever fixity    *)
(* vector the node was constructed with.                                   *)
(***************************************************************************)
C30_SetThenRemoveRestoresFixity ==
    SetThenRemoved =>
        \A v \in DOMAIN nodes : nodes[v].fixity = FixityBeforeTheTwoCalls[v]

=============================================================================
